---- MODULE Spec2Model ----
(***************************************************************************)
(* Multi-round workflow of stream_pack_builder: WorkflowState, its         *)
(* persistence, the stopping check, the driver run_multi_agent_workflow    *)
(* with its deliverables and upload phases, the automated checker of       *)
(* rubric.py, the Critic's evaluate_pack, generate_image with its chain of *)
(* models, and run_round on the pack directory (config.yaml, the image     *)
(* directories, the delivery archives).                                    *)
(*                                                                         *)
(* Scores and thresholds are floats on a 0..10 scale in the source; here   *)
(* they are integers in tenths (8.5 is 85).  Log/reason strings built with *)
(* f-strings are kept as their templates: the numbers they interpolate     *)
(* never decide a substring test.                                          *)
(***************************************************************************)
EXTENDS Integers, Sequences, FiniteSets, TLC

\* ------------------------------------------------------------------ bounds
MaxRoundsBound == 3
MaxInvocations == 2
MaxLen == 2
MaxOverlays == 8
MaxZips == 8
MaxModels == 2
MaxAborts == 1

\* ------------------------------------------------------ program constants
PASS_SCORE == 85
DEFAULT_ROUND_COST == 0

\* Scores an evaluation may carry and thresholds a caller may pass (tenths).
ScoreValues == {0, 75, 85, 87, 100}
ThresholdValues == {70, 85, 90}
FnThresholdValues == {0} \cup ThresholdValues

\* ------------------------------------------------------------ Python None
None == [cls |-> "NoneType"]
\* JSON null in the persisted document
JNull == [json |-> "null"]

\* ------------------------------------------------------- reason templates
\* "BLOCKED" in reason
HasBLOCKED(reason) == reason = "BLOCKED by {n} critical issue(s)"
\* "PASS" in reason
HasPASS(reason) == reason = "PASS - Score {s} >= threshold {t}"
\* "threshold" in reason.lower()
LowerHasThreshold(reason) == reason \in {"PASS - Score {s} >= threshold {t}", "Score {s} < threshold {t}"}

\* ----------------------------------------------------------- data classes
EvaluationScore(dimension, score, weight, justification, issues) ==
    [cls |-> "EvaluationScore", dimension |-> dimension, score |-> score,
     weight |-> weight, justification |-> justification, issues |-> issues]

PackEvaluation(pack_name, overall_score, dims, crit, sel, deltas, auto_ok) ==
    [cls |-> "PackEvaluation", pack_name |-> pack_name,
     overall_score |-> overall_score, dimension_scores |-> dims,
     critical_issues |-> crit, selected_images |-> sel,
     deltas |-> deltas, automated_checks_passed |-> auto_ok]

RoundState(round_num, timestamp, prompts_used, evaluation, variants, cost) ==
    [cls |-> "RoundState", round_num |-> round_num, timestamp |-> timestamp,
     prompts_used |-> prompts_used, evaluation |-> evaluation,
     variants_generated |-> variants, cost_usd |-> cost]

WorkflowState(pack_name, started_at, max_rounds, thr, rounds, completed, why) ==
    [cls |-> "WorkflowState", pack_name |-> pack_name,
     started_at |-> started_at, max_rounds |-> max_rounds,
     quality_threshold |-> thr, rounds |-> rounds,
     completed |-> completed, completion_reason |-> why]

\* A completion reason is f"{decision}: {reason}" after the post-check and
\* the bare reason after the pre-check; label is "" in the second case.
ReasonText(label, text) == [label |-> label, text |-> text]

\* Python truthiness of an Optional[PackEvaluation] (a dataclass instance is
\* always truthy).
Truthy(x) == x # None

\* Python truthiness of an Optional[float]: None and 0.0 are falsy.  Only
\* reached with a score present (the caller has an evaluation).
FloatTruthy(x) == x # 0 /\ x # -1

\* PackEvaluation.passes_threshold
passes_threshold(e) == e.overall_score >= PASS_SCORE /\ e.critical_issues = <<>>

\* mutant: the round counter is not advanced past the recorded rounds
current_round_not_advanced(s) == IF s.rounds = <<>> THEN 1 ELSE Len(s.rounds)

\* WorkflowState.current_round
current_round(s) == Len(s.rounds) + 1

\* WorkflowState.latest_evaluation
latest_evaluation(s) ==
    IF s.rounds = <<>> THEN None ELSE s.rounds[Len(s.rounds)].evaluation

\* WorkflowState.latest_score (None is reported as -1: no score is negative)
NoScore == -1
latest_score(s) ==
    IF Truthy(latest_evaluation(s)) THEN latest_evaluation(s).overall_score
    ELSE NoScore

\* WorkflowState.latest_deltas
latest_deltas(s) ==
    IF Truthy(latest_evaluation(s)) THEN latest_evaluation(s).deltas ELSE <<>>

\* mutant: the critical-issue check is missing
should_continue_ignores_critical(s) ==
    IF ~Truthy(latest_evaluation(s))
    THEN [cont |-> TRUE, reason |-> "No evaluation yet"]
    ELSE IF latest_evaluation(s).overall_score >= PASS_SCORE
    THEN [cont |-> FALSE, reason |-> "PASS - Score {s} >= threshold {t}"]
    ELSE IF current_round(s) > s.max_rounds
    THEN [cont |-> FALSE, reason |-> "Max rounds ({m}) reached"]
    ELSE [cont |-> TRUE, reason |-> "Score {s} < threshold {t}"]

\* mutant: the ceiling is tested one round late
should_continue_late_ceiling(s) ==
    IF ~Truthy(latest_evaluation(s))
    THEN [cont |-> TRUE, reason |-> "No evaluation yet"]
    ELSE IF latest_evaluation(s).critical_issues # <<>>
    THEN [cont |-> FALSE, reason |-> "BLOCKED by {n} critical issue(s)"]
    ELSE IF passes_threshold(latest_evaluation(s))
    THEN [cont |-> FALSE, reason |-> "PASS - Score {s} >= threshold {t}"]
    ELSE IF current_round(s) > s.max_rounds + 1
    THEN [cont |-> FALSE, reason |-> "Max rounds ({m}) reached"]
    ELSE [cont |-> TRUE, reason |-> "Score {s} < threshold {t}"]

\* mutant: the ceiling is not tested at all
should_continue_no_ceiling(s) ==
    IF ~Truthy(latest_evaluation(s))
    THEN [cont |-> TRUE, reason |-> "No evaluation yet"]
    ELSE IF latest_evaluation(s).critical_issues # <<>>
    THEN [cont |-> FALSE, reason |-> "BLOCKED by {n} critical issue(s)"]
    ELSE IF passes_threshold(latest_evaluation(s))
    THEN [cont |-> FALSE, reason |-> "PASS - Score {s} >= threshold {t}"]
    ELSE [cont |-> TRUE, reason |-> "Score {s} < threshold {t}"]

\* WorkflowState.should_continue
should_continue(s) ==
    IF ~Truthy(latest_evaluation(s))
    THEN [cont |-> TRUE, reason |-> "No evaluation yet"]
    ELSE IF latest_evaluation(s).critical_issues # <<>>
    THEN [cont |-> FALSE, reason |-> "BLOCKED by {n} critical issue(s)"]
    ELSE IF passes_threshold(latest_evaluation(s))
    THEN [cont |-> FALSE, reason |-> "PASS - Score {s} >= threshold {t}"]
    ELSE IF current_round(s) > s.max_rounds
    THEN [cont |-> FALSE, reason |-> "Max rounds ({m}) reached"]
    ELSE [cont |-> TRUE, reason |-> "Score {s} < threshold {t}"]

\* check_stopping_conditions
check_stopping_conditions(s) ==
    LET sc == should_continue(s) IN
    IF ~sc.cont
    THEN IF HasBLOCKED(sc.reason)
         THEN [should_stop |-> TRUE, decision |-> "BLOCKED", reason |-> sc.reason]
         ELSE IF HasPASS(sc.reason) \/ LowerHasThreshold(sc.reason)
         THEN [should_stop |-> TRUE, decision |-> "PASS", reason |-> sc.reason]
         ELSE IF FloatTruthy(latest_score(s))
                 /\ latest_score(s) >= s.quality_threshold
         THEN [should_stop |-> TRUE, decision |-> "PASS", reason |-> "Max rounds reached, but quality acceptable ({s}/10)"]
         ELSE [should_stop |-> TRUE, decision |-> "CONTINUE", reason |-> "Max rounds reached with score {s}/10"]
    ELSE [should_stop |-> FALSE, decision |-> "CONTINUE", reason |-> sc.reason]

\* WorkflowState.add_round
add_round(s, round_state) == [s EXCEPT !.rounds = Append(@, round_state)]

\* WorkflowState.finalize
finalize(s, reason) ==
    [s EXCEPT !.completed = TRUE, !.completion_reason = reason]

\* WorkflowState.create_new
create_new(pack_name, max_rounds, quality_threshold, now) ==
    WorkflowState(pack_name, now, max_rounds, quality_threshold, <<>>, FALSE,
                  ReasonText("", ""))

\* ------------------------------------------------------------ persistence
\* dict.get(key, default)
Get(d, key, default) == IF key \in DOMAIN d THEN d[key] ELSE default

\* the per-dimension dict written by RoundState.to_dict
ScoreToJson(d) ==
    [dimension |-> d.dimension, score |-> d.score, weight |-> d.weight,
     justification |-> d.justification, issues |-> d.issues]

\* the "dimension_scores" list comprehension of RoundState.to_dict
ScoresToJson(q) == [i \in 1..Len(q) |-> ScoreToJson(q[i])]

\* the "evaluation" dict written by RoundState.to_dict
EvaluationToJson(e) ==
    [pack_name |-> e.pack_name, overall_score |-> e.overall_score,
     dimension_scores |-> ScoresToJson(e.dimension_scores),
     critical_issues |-> e.critical_issues,
     selected_images |-> e.selected_images, deltas |-> e.deltas,
     automated_checks_passed |-> e.automated_checks_passed]

\* mutant: the serialized round leaves out the variant count
to_dict_without_variants(r) ==
    [round_num |-> r.round_num, timestamp |-> r.timestamp,
     prompts_used |-> r.prompts_used,
     evaluation |-> IF Truthy(r.evaluation) THEN EvaluationToJson(r.evaluation)
                    ELSE JNull,
     cost_usd |-> r.cost_usd]

\* RoundState.to_dict
to_dict(r) ==
    [round_num |-> r.round_num, timestamp |-> r.timestamp,
     prompts_used |-> r.prompts_used,
     evaluation |-> IF Truthy(r.evaluation) THEN EvaluationToJson(r.evaluation)
                    ELSE JNull,
     variants_generated |-> r.variants_generated, cost_usd |-> r.cost_usd]

\* [r.to_dict() for r in self.rounds]
RoundsToJson(q) == [i \in 1..Len(q) |-> to_dict(q[i])]

\* WorkflowState.save: the JSON document written to qa/workflow_state.json
save(s) ==
    [pack_name |-> s.pack_name, started_at |-> s.started_at,
     max_rounds |-> s.max_rounds, quality_threshold |-> s.quality_threshold,
     rounds |-> RoundsToJson(s.rounds), completed |-> s.completed,
     completion_reason |-> s.completion_reason]

\* EvaluationScore(**s)
ScoreFromJson(j) ==
    EvaluationScore(j.dimension, j.score, j.weight, j.justification, j.issues)

\* [EvaluationScore(**s) for s in eval_data["dimension_scores"]]
ScoresFromJson(q) == [i \in 1..Len(q) |-> ScoreFromJson(q[i])]

\* the PackEvaluation rebuilt by WorkflowState.load
EvaluationFromJson(j) ==
    PackEvaluation(j.pack_name, j.overall_score,
                   ScoresFromJson(j.dimension_scores),
                   j.critical_issues, j.selected_images, j.deltas,
                   j.automated_checks_passed)

\* the RoundState rebuilt by WorkflowState.load
RoundFromJson(j) ==
    RoundState(j.round_num, j.timestamp, j.prompts_used,
               IF Get(j, "evaluation", JNull) # JNull
               THEN EvaluationFromJson(j.evaluation) ELSE None,
               Get(j, "variants_generated", 0),
               Get(j, "cost_usd", DEFAULT_ROUND_COST))

\* the loop of WorkflowState.load over data["rounds"]
RoundsFromJson(q) == [i \in 1..Len(q) |-> RoundFromJson(q[i])]

\* WorkflowState.load (of an existing file)
load(doc) ==
    WorkflowState(doc.pack_name, doc.started_at, doc.max_rounds,
                  Get(doc, "quality_threshold", PASS_SCORE),
                  RoundsFromJson(Get(doc, "rounds", <<>>)),
                  Get(doc, "completed", FALSE),
                  Get(doc, "completion_reason", ReasonText("", "")))

NoFile == [exists |-> FALSE]
File(doc) == [exists |-> TRUE, data |-> doc]

\* PM: determine_variant_count
determine_variant_count(round_num, max_rounds) ==
    IF round_num = 1 THEN 3 ELSE IF round_num = 2 THEN 2 ELSE 1


\* ------------------------------------------------- what a round can return
CriticalChoices == {<<>>, <<"oversized archive">>}
SelectedImages == [starting |-> "starting_01.png"]
Prompts(p) == [starting |-> p]

\* The PackEvaluation evaluate_pack hands back to run_round: any score, with
\* or without critical issues.
DriverEvaluations ==
    {PackEvaluation("demo", sc, <<>>, c, SelectedImages, <<"delta">>, c = <<>>) :
        sc \in ScoreValues, c \in CriticalChoices}

\* ------------------------------------------------- rubric: numbers and files
\* Inside the rubric and the Critic a float is an exact fraction of tenths:
\* the aggregate is a quotient and the mock's technical score a product.
Float(n) == [num |-> n, den |-> 1]
FloatEq(x, y) == x.num * y.den = y.num * x.den
FloatMul(x, y) == [num |-> x.num * y.num, den |-> x.den * y.den]
FloatAdd(x, y) ==
    IF x.den = y.den THEN [num |-> x.num + y.num, den |-> x.den]
    ELSE [num |-> x.num * y.den + y.num * x.den, den |-> x.den * y.den]

\* Python's sum() over a list of numbers, and the product of a list
SeqSum(q) ==
    LET S[i \in 0..Len(q)] == IF i = 0 THEN 0 ELSE S[i - 1] + q[i] IN S[Len(q)]
SeqProd(q) ==
    LET P[i \in 0..Len(q)] == IF i = 0 THEN 1 ELSE P[i - 1] * q[i] IN P[Len(q)]
Max(a, b) == IF a >= b THEN a ELSE b

\* Limits of the automated checker (pixels; file sizes in KB)
OVERLAY_WIDTH == 1920
OVERLAY_HEIGHT == 1080
LISTING_MIN_PX == 2000
LISTING_SOFT_KB == 1024
LISTING_HARD_KB == 2048
ZIP_LIMIT_KB == 20480
MAX_ZIP_FILES == 5

\* Issue texts (templates of the f-strings)
\* "wrong resolution" in issue.lower()
HasWrongResolution(issue) == issue = "Overlay wrong resolution: {name} is {w}x{h}, expected 1920x1080"
\* "exceeds" in issue.lower() and "20mb" in issue.lower()
HasExceeds20MB(issue) == issue = "{name}: Size {s}MB exceeds Etsy's 20MB limit"

\* the entries of a list that were appended (the others are "")
Appended(q) == SelectSeq(q, LAMBDA x : x # "")

\* validate_technical_overlays
validate_technical_overlays(final_dir) ==
    IF ~final_dir.exists THEN [issues |-> <<"Final directory not found: {final_dir}">>, passes |-> FALSE]
    ELSE IF final_dir.pngs = <<>> THEN [issues |-> <<"No overlay PNG files found in {final_dir}">>, passes |-> FALSE]
    ELSE LET found == Appended([i \in 1..Len(final_dir.pngs) |->
                         LET img == final_dir.pngs[i] IN
                         IF ~img.readable THEN "Failed to read {name}: {e}"
                         ELSE IF <<img.w, img.h>> # <<OVERLAY_WIDTH, OVERLAY_HEIGHT>>
                         THEN "Overlay wrong resolution: {name} is {w}x{h}, expected 1920x1080" ELSE ""])
         IN [issues |-> found, passes |-> Len(found) = 0]

\* validate_etsy_listings: per photo the checks run in the order too small,
\* first photo portrait, over 2MB; an unreadable photo gives one error
validate_etsy_listings(listing_dir) ==
    IF ~listing_dir.exists \/ listing_dir.jpgs = <<>>
    THEN [errors |-> <<>>, warnings |-> <<>>, passes |-> TRUE]
    ELSE LET n == Len(listing_dir.jpgs)
             img(k) == listing_dir.jpgs[((k - 1) \div 3) + 1]
             errs == Appended([k \in 1..(3 * n) |->
                       IF ~img(k).readable
                       THEN (IF (k - 1) % 3 = 0 THEN "Failed to validate {name}: {e}" ELSE "")
                       ELSE IF (k - 1) % 3 = 0
                       THEN (IF img(k).w < LISTING_MIN_PX \/ img(k).h < LISTING_MIN_PX
                             THEN "{name}: Too small {w}x{h}, Etsy requires min 2000px on smallest side" ELSE "")
                       ELSE IF (k - 1) % 3 = 1
                       THEN (IF k = 2 /\ img(k).w < img(k).h THEN "{name}: First listing image should be landscape or square" ELSE "")
                       ELSE (IF img(k).kb > LISTING_HARD_KB THEN "{name}: Size {s}MB exceeds Etsy's 2MB limit" ELSE "")])
             warns == Appended([i \in 1..n |->
                       IF listing_dir.jpgs[i].readable
                          /\ listing_dir.jpgs[i].kb > LISTING_SOFT_KB
                       THEN "{name}: Size {s}MB > 1MB (Etsy recommends <=1MB for faster loading)" ELSE ""])
         IN [errors |-> errs, warnings |-> warns, passes |-> Len(errs) = 0]

\* validate_etsy_downloads
validate_etsy_downloads(zips_dir) ==
    IF ~zips_dir.exists \/ zips_dir.zips = <<>>
    THEN [issues |-> <<>>, passes |-> TRUE]
    ELSE LET many == IF Len(zips_dir.zips) > MAX_ZIP_FILES THEN <<"Too many download files: {n} ZIPs found, Etsy allows max 5 files">> ELSE <<>>
             big == Appended([i \in 1..Len(zips_dir.zips) |->
                       IF zips_dir.zips[i].kb > ZIP_LIMIT_KB THEN "{name}: Size {s}MB exceeds Etsy's 20MB limit" ELSE ""])
         IN [issues |-> many \o big, passes |-> Len(many \o big) = 0]

\* check_critical_issues
check_critical_issues(pack_dir) ==
    IF ~pack_dir.final.exists THEN <<"Missing 03_final/ directory">>
    ELSE (IF pack_dir.final.pngs = <<>> THEN <<"No overlay PNG files found in 03_final/">> ELSE <<>>)
         \o [i \in 1..Len(SelectSeq(validate_technical_overlays(pack_dir.final).issues,
                                    HasWrongResolution)) |-> "CRITICAL: Overlay wrong resolution: {name} is {w}x{h}, expected 1920x1080"]
         \o (IF pack_dir.zips.exists
             THEN [i \in 1..Len(SelectSeq(validate_etsy_downloads(pack_dir.zips).issues,
                                          HasExceeds20MB)) |-> "CRITICAL: {name}: Size {s}MB exceeds Etsy's 20MB limit"]
             ELSE <<>>)

\* mutant: listing warnings are counted as issues
compute_automated_score_counts_warnings(pack_dir) ==
    LET all_issues == validate_technical_overlays(pack_dir.final).issues
                      \o validate_etsy_listings(pack_dir.listing).errors
                      \o validate_etsy_listings(pack_dir.listing).warnings
                      \o validate_etsy_downloads(pack_dir.zips).issues
    IN [score |-> Float(Max(0, 100 - Len(all_issues) * 5)), issues |-> all_issues]

\* compute_automated_score
compute_automated_score(pack_dir) ==
    LET all_issues == validate_technical_overlays(pack_dir.final).issues
                      \o validate_etsy_listings(pack_dir.listing).errors
                      \o validate_etsy_downloads(pack_dir.zips).issues
    IN [score |-> Float(Max(0, 100 - Len(all_issues) * 5)), issues |-> all_issues]

\* mutant: the weights are taken to sum to 1 (no division by the total)
calculate_overall_score_unnormalised(dimension_scores) ==
    IF dimension_scores = <<>> THEN Float(0)
    ELSE LET n == Len(dimension_scores)
             total_weight == SeqSum([i \in 1..n |-> dimension_scores[i].weight])
             D == SeqProd([i \in 1..n |-> dimension_scores[i].score.den])
             weighted_sum ==
                 SeqSum([i \in 1..n |-> dimension_scores[i].score.num
                            * dimension_scores[i].weight
                            * (D \div dimension_scores[i].score.den)])
         IN IF total_weight = 0 THEN Float(0)
            ELSE [num |-> weighted_sum, den |-> D * 100]

\* calculate_overall_score (weights are in hundredths: 0.30 is 30)
calculate_overall_score(dimension_scores) ==
    IF dimension_scores = <<>> THEN Float(0)
    ELSE LET n == Len(dimension_scores)
             total_weight == SeqSum([i \in 1..n |-> dimension_scores[i].weight])
             D == SeqProd([i \in 1..n |-> dimension_scores[i].score.den])
             weighted_sum ==
                 SeqSum([i \in 1..n |-> dimension_scores[i].score.num
                            * dimension_scores[i].weight
                            * (D \div dimension_scores[i].score.den)])
         IN IF total_weight = 0 THEN Float(0)
            ELSE [num |-> weighted_sum, den |-> D * total_weight]


\* ------------------------------------------------------------------ Critic
Raised(exc) == [ok |-> FALSE, raised |-> exc]
Returned(value) == [ok |-> TRUE, value |-> value]

\* parse_critic_response: a fenced block is cut out when its closing fence is
\* found, then json.loads runs on what is left
parse_critic_response(response_text) ==
    IF response_text.fence = "unclosed" \/ ~response_text.body.json
    THEN Raised("ValueError")
    ELSE Returned(response_text.body.data)

\* {screen_type: paths[0].name}: the first final image of each screen type
\* (the packs of the model have the one screen type "starting")
FirstOfEachType(final_dir) == [starting |-> "starting_01.png"]

\* _create_mock_evaluation
create_mock_evaluation(pack_name, images, automated_score, automated_issues, crit) ==
    LET dimension_scores == <<
            EvaluationScore("brand_consistency", Float(75), 30,
                            "[DRY RUN] brand consistency not assessed", <<>>),
            EvaluationScore("technical_quality",
                            FloatAdd(FloatMul(automated_score, [num |-> 7, den |-> 10]),
                                     FloatMul(Float(70), [num |-> 3, den |-> 10])),
                            25, "[DRY RUN] Automated checks score: {s}/10",
                            automated_issues),
            EvaluationScore("etsy_compliance", Float(90), 20,
                            "[DRY RUN] compliance not assessed", <<>>),
            EvaluationScore("visual_appeal", Float(70), 25,
                            "[DRY RUN] visual appeal not assessed", <<>>) >>
    IN PackEvaluation(pack_name, calculate_overall_score(dimension_scores),
                      dimension_scores, crit, images,
                      <<"[DRY RUN] This is a mock evaluation",
                        "[DRY RUN] Run without --dry-run for real AI evaluation">>,
                      Len(automated_issues) = 0)

\* mutant: the fallback reports a fixed middle score instead of the automated one
create_fallback_evaluation_fixed(pack_name, images, automated_score, automated_issues, crit) ==
    PackEvaluation(pack_name, Float(50),
                   <<EvaluationScore("technical_quality", automated_score, 100,
                                     "Automated checks only (Vision model parse failed)",
                                     automated_issues)>>,
                   crit, images,
                   <<"ERROR: Failed to parse Critic response, only automated checks applied">>,
                   Len(automated_issues) = 0)

\* _create_fallback_evaluation
create_fallback_evaluation(pack_name, images, automated_score, automated_issues, crit) ==
    PackEvaluation(pack_name, automated_score,
                   <<EvaluationScore("technical_quality", automated_score, 100,
                                     "Automated checks only (Vision model parse failed)",
                                     automated_issues)>>,
                   crit, images,
                   <<"ERROR: Failed to parse Critic response, only automated checks applied">>,
                   Len(automated_issues) = 0)

\* the keys dim_data[...] reads without a default
DimKeys == {"dimension", "score", "weight", "justification"}

\* _build_evaluation_from_response
build_evaluation_from_response(pack_name, parsed, automated_score, automated_issues, crit) ==
    LET dims == Get(parsed, "dimension_scores", <<>>) IN
    IF \E i \in 1..Len(dims) : ~(DimKeys \subseteq DOMAIN dims[i])
    THEN Raised("KeyError")
    ELSE Returned(PackEvaluation(
             pack_name,
             Get(parsed, "overall_score", automated_score),
             [i \in 1..Len(dims) |->
                 EvaluationScore(dims[i].dimension, dims[i].score, dims[i].weight,
                                 dims[i].justification, Get(dims[i], "issues", <<>>))],
             crit \o Get(parsed, "critical_issues", <<>>),
             Get(parsed, "selected_images", << >>),
             Get(parsed, "deltas", <<>>),
             Len(automated_issues) = 0))

\* evaluate_pack
evaluate_pack(pack_name, pack_dir, api_key, dry_run, response) ==
    IF ~api_key /\ ~dry_run THEN Raised("ValueError")
    ELSE IF ~pack_dir.final.exists THEN Raised("FileNotFoundError")
    ELSE IF pack_dir.final.pngs = <<>> THEN Raised("FileNotFoundError")
    ELSE LET automated == compute_automated_score(pack_dir)
             critical_issues == check_critical_issues(pack_dir)
             images == FirstOfEachType(pack_dir.final)
         IN IF dry_run
            THEN Returned(create_mock_evaluation(pack_name, images, automated.score,
                                                 automated.issues, critical_issues))
            ELSE IF response.kind = "api_error" THEN Raised("APIError")
            ELSE IF ~parse_critic_response(response.text).ok
            THEN Returned(create_fallback_evaluation(pack_name, images, automated.score,
                                                     automated.issues, critical_issues))
            ELSE build_evaluation_from_response(
                     pack_name, parse_critic_response(response.text).value,
                     automated.score, automated.issues, critical_issues)


\* ------------------------------------- rubric/Critic-level specification
\* Pack directories the checker can be run on, and calls of the three
\* functions with their inputs.
OverlayOk == [w |-> 1920, h |-> 1080, readable |-> TRUE]
OverlayWrong == [w |-> 1280, h |-> 720, readable |-> TRUE]
OverlayCorrupt == [w |-> 0, h |-> 0, readable |-> FALSE]
PhotoGood == [w |-> 2000, h |-> 2000, kb |-> 500, readable |-> TRUE]
PhotoSmallPortrait == [w |-> 1000, h |-> 1500, kb |-> 500, readable |-> TRUE]
PhotoSoft == [w |-> 3000, h |-> 2000, kb |-> 1500, readable |-> TRUE]
PhotoHard == [w |-> 2000, h |-> 3000, kb |-> 3000, readable |-> TRUE]
PhotoCorrupt == [w |-> 0, h |-> 0, kb |-> 10, readable |-> FALSE]
ZipOk == [kb |-> 20480]
ZipBig == [kb |-> 20481]

Copies(x, k) == [i \in 1..k |-> x]
NoDir == [exists |-> FALSE]

FinalDirs ==
    {NoDir} \cup
    {[exists |-> TRUE,
      pngs |-> Copies(OverlayWrong, k) \o Copies(OverlayCorrupt, c) \o Copies(OverlayOk, j)] :
        k \in 0..MaxOverlays, c \in 0..1, j \in 0..1}

ListingDirs ==
    LET photos == {PhotoGood, PhotoSmallPortrait, PhotoSoft, PhotoHard, PhotoCorrupt}
    IN {NoDir} \cup
       {[exists |-> TRUE, jpgs |-> q] : q \in UNION {[1..k -> photos] : k \in 0..MaxLen}}

ZipDirs ==
    {NoDir} \cup
    {[exists |-> TRUE, zips |-> Copies(ZipBig, k) \o Copies(ZipOk, j)] :
        k \in 0..MaxZips, j \in 0..1}

PackDir(final, listing, zips) == [final |-> final, listing |-> listing, zips |-> zips]

PackDirs == {PackDir(f, l, z) : f \in FinalDirs, l \in ListingDirs, z \in ZipDirs}

\* The packs evaluate_pack is called on.
EvalPackDirs ==
    {PackDir(NoDir, NoDir, NoDir),
     PackDir([exists |-> TRUE, pngs |-> <<>>], NoDir, NoDir),
     PackDir([exists |-> TRUE, pngs |-> <<OverlayOk>>], NoDir, NoDir),
     PackDir([exists |-> TRUE, pngs |-> <<OverlayWrong, OverlayOk>>], NoDir, NoDir),
     PackDir([exists |-> TRUE, pngs |-> <<OverlayOk>>], [exists |-> TRUE, jpgs |-> <<PhotoSoft>>],
             [exists |-> TRUE, zips |-> <<ZipBig, ZipOk>>]),
     PackDir([exists |-> TRUE, pngs |-> <<OverlayOk, OverlayCorrupt>>],
             [exists |-> TRUE, jpgs |-> <<PhotoSmallPortrait, PhotoHard>>], [exists |-> TRUE, zips |-> <<ZipOk>>])}

\* What the evaluation model can answer.
LLMDim(s, w) ==
    [dimension |-> "brand_consistency", score |-> Float(s), weight |-> w,
     justification |-> "j"]
Optional(key, values) == {<< >>} \cup {key :> v : v \in values}

ParsedResponses ==
    LET dim_lists ==
            {<<LLMDim(80, 100)>>, <<LLMDim(60, 50), LLMDim(90, 50)>>,
             <<LLMDim(90, 30), LLMDim(70, 25)>>,
             <<[dimension |-> "visual_appeal", weight |-> 25, justification |-> "j"]>>}
    IN {d @@ o @@ c @@ [selected_images |-> SelectedImages, deltas |-> <<"delta">>] :
           d \in Optional("dimension_scores", dim_lists),
           o \in Optional("overall_score", {Float(75), Float(90)}),
           c \in Optional("critical_issues", {<<"Copyright logo visible">>})}

Responses ==
    LET bodies == {[json |-> FALSE]} \cup {[json |-> TRUE, data |-> p] : p \in ParsedResponses}
    IN {[kind |-> "api_error"]} \cup
       {[kind |-> "text", text |-> [fence |-> f, body |-> b]] :
           f \in {"none", "closed", "unclosed"}, b \in bodies}

\* Dimension lists handed to the aggregator: any weights, also 0 and negative.
AggregateInputs ==
    LET dims ==
            {EvaluationScore("d", s, w, "j", <<>>) :
                s \in {Float(0), Float(75), Float(100), [num |-> 171, den |-> 2]},
                w \in {-25, 0, 25, 100}}
    IN UNION {[1..k -> dims] : k \in 0..MaxLen}

Calls ==
    {[op |-> "evaluate", pack_dir |-> p, api_key |-> k, dry_run |-> d, response |-> r] :
        p \in EvalPackDirs, k \in BOOLEAN, d \in BOOLEAN, r \in Responses}
    \cup {[op |-> "score", pack_dir |-> p] : p \in PackDirs}
    \cup {[op |-> "aggregate", dimension_scores |-> q] : q \in AggregateInputs}

\* The driver compares a score only with thresholds on the tenths grid, so
\* it keeps the whole tenths of a Critic score.
OnGrid(e) == [e EXCEPT !.overall_score = e.overall_score.num \div e.overall_score.den]

\* The PackEvaluation evaluate_pack hands back under dry_run: the mock
\* evaluation of a pack whose 03_final/ holds images.
DryRunEvaluations ==
    {OnGrid(evaluate_pack("demo", p, FALSE, TRUE, [kind |-> "api_error"]).value) :
        p \in {d \in EvalPackDirs : d.final.exists /\ d.final.pngs # <<>>}}

\* mutant: the round is numbered from 0
run_round_result_zero_based(round_num, s, evaluation) ==
    RoundState(round_num - 1, "T1", Prompts("P0"), evaluation,
               determine_variant_count(round_num, s.max_rounds),
               DEFAULT_ROUND_COST)

\* The RoundState run_round assembles for round_num.
run_round_result(round_num, s, evaluation) ==
    RoundState(round_num, "T1", Prompts("P0"), evaluation,
               determine_variant_count(round_num, s.max_rounds),
               DEFAULT_ROUND_COST)

\* --------------------------------------- config.yaml: prompts, deltas, tokens
\* A text is a sequence of pieces (phrases and separators); a string test of
\* the code is a test on the pieces.  Chars is len() of a piece.  In a
\* delta of the Critic "->" stands for the arrow of the delta format.
Chars(piece) ==
    CASE piece = "a {theme} stream overlay for the {kind} screen" -> 46
      [] piece = ", " -> 2
      [] piece = ". " -> 2
      [] piece = "." -> 1
      [] piece = " " -> 1
      [] piece = "Refinement: " -> 12
      [] piece = "Note: " -> 6
      [] piece = "strong central focal glow" -> 25
      [] piece = "neon" -> 4
      [] piece = "more backlight" -> 14
      [] piece = "<a phrase of 2001 characters>" -> 2001
      [] piece = "Add: 'strong central focal glow'" -> 32
      [] piece = "prompts.live -> Adjust: 'more backlight'" -> 39
      [] OTHER -> 50

\* parse_delta: the three groups of the pattern, or the fallback
parse_delta(delta) ==
    CASE delta = "prompts.starting -> Add: 'strong central focal glow'" ->
           [target |-> "prompts.starting", action |-> "Add", content |-> "strong central focal glow"]
      [] delta = "prompts.live -> Change: 'neon'" ->
           [target |-> "prompts.live", action |-> "Change", content |-> "neon"]
      [] delta = "prompts.starting -> Remove: 'strong central focal glow'" ->
           [target |-> "prompts.starting", action |-> "Remove", content |-> "strong central focal glow"]
      [] delta = "prompts.live -> Adjust: 'more backlight'" ->
           [target |-> "prompts.live", action |-> "Adjust", content |-> "more backlight"]
      [] delta = "prompts.live -> Emphasize: 'neon'" ->
           [target |-> "prompts.live", action |-> "Emphasize", content |-> "neon"]
      [] delta = "brand_tokens.texture -> Change: 'neon'" ->
           [target |-> "brand_tokens.texture", action |-> "Change", content |-> "neon"]
      [] OTHER -> [target |-> "prompts.general", action |-> "Adjust", content |-> delta]

\* apply_delta_to_prompt.  action_lower is action.lower(), RStrip is
\* text.rstrip().  In the "remove"
\* branch original_prompt.split(".") makes a full stop end a sentence: the
\* sentences that hold the content are dropped, the others joined again and
\* closed with a full stop (the blanks around the full stops are not counted).
apply_delta_to_prompt(original_prompt, action, content) ==
    LET action_lower ==
            CASE action = "Add" -> "add"
              [] action = "Adjust" -> "adjust"
              [] action = "Remove" -> "remove"
              [] action = "Change" -> "change"
              [] action = "Emphasize" -> "emphasize"
              [] OTHER -> action
        RStrip(text) ==
            SubSeq(text, 1, CHOOSE k \in 0..Len(text) :
                                /\ k > 0 => text[k] # " "
                                /\ \A j \in (k + 1)..Len(text) : text[j] = " ")
        IsStop(piece) == piece \in {". ", "."}
        n == Len(original_prompt)
        sent(i) == Cardinality({j \in 1..(i - 1) : IsStop(original_prompt[j])})
        hit(i) == \E j \in 1..n : sent(j) = sent(i) /\ original_prompt[j] = content
        keep[i \in 0..n] ==
            IF i = 0 THEN <<>>
            ELSE IF hit(i) THEN keep[i - 1] ELSE Append(keep[i - 1], original_prompt[i])
        filtered == IF keep[n] # <<>> /\ IsStop(keep[n][Len(keep[n])])
                    THEN SubSeq(keep[n], 1, Len(keep[n]) - 1) ELSE keep[n]
    IN CASE action_lower = "add" ->
              RStrip(original_prompt) \o <<", ", content>>
         [] action_lower = "adjust" ->
              RStrip(original_prompt) \o <<". ", "Refinement: ", content>>
         [] action_lower = "remove" -> Append(filtered, ".")
         [] action_lower = "change" -> <<content>>
         [] OTHER -> RStrip(original_prompt) \o <<". ", "Note: ", content>>

\* refine_prompts_rule_based: a delta whose target does not start with
\* "prompts." or names no prompt of the config is skipped; prompt_kind is
\* target.split(".", 1)[1]
refine_prompts_rule_based(original_prompts, deltas) ==
    LET IsPromptTarget(target) ==
            target \in {"prompts.starting", "prompts.live", "prompts.general"}
        prompt_kind(target) ==
            CASE target = "prompts.starting" -> "starting"
              [] target = "prompts.live" -> "live"
              [] OTHER -> "general"
        refined[i \in 0..Len(deltas)] ==
            IF i = 0 THEN original_prompts
            ELSE LET d == parse_delta(deltas[i])
                 IN IF ~IsPromptTarget(d.target) THEN refined[i - 1]
                    ELSE IF prompt_kind(d.target) \notin DOMAIN refined[i - 1]
                    THEN refined[i - 1]
                    ELSE [refined[i - 1] EXCEPT ![prompt_kind(d.target)] =
                             apply_delta_to_prompt(@, d.action, d.content)]
    IN refined[Len(deltas)]

\* refine_prompts_llm: the refined_prompts of the answer; any failure of the
\* call or of json.loads falls back to the rules
refine_prompts_llm(original_prompts, deltas, answer) ==
    IF deltas = <<>> THEN original_prompts
    ELSE IF ~answer.ok THEN refine_prompts_rule_based(original_prompts, deltas)
    ELSE Get(answer.data, "refined_prompts", original_prompts)

\* refine_prompts: llm says whether the LLM is available (package and key)
\* and what it answers
refine_prompts(original_prompts, deltas, llm) ==
    IF deltas = <<>> THEN original_prompts
    ELSE IF llm.available THEN refine_prompts_llm(original_prompts, deltas, llm.prompts)
    ELSE refine_prompts_rule_based(original_prompts, deltas)

\* validate_prompts: per prompt the warnings too short, very long, empty
ScreenTypes == <<"starting", "live">>
MIN_PROMPT_CHARS == 10
MAX_PROMPT_CHARS == 2000
validate_prompts(prompts) ==
    Appended([j \in 1..(3 * Len(ScreenTypes)) |->
        LET kind == ScreenTypes[((j - 1) \div 3) + 1]
            TextLen(text) == SeqSum([i \in 1..Len(text) |-> Chars(text[i])])
        IN IF kind \notin DOMAIN prompts THEN ""
           ELSE IF (j - 1) % 3 = 0
           THEN (IF TextLen(prompts[kind]) < MIN_PROMPT_CHARS THEN "{kind}: Prompt too short ({n} chars)" ELSE "")
           ELSE IF (j - 1) % 3 = 1
           THEN (IF TextLen(prompts[kind]) > MAX_PROMPT_CHARS THEN "{kind}: Prompt very long ({n} chars, may hit API limits)" ELSE "")
           ELSE (IF SelectSeq(prompts[kind], LAMBDA piece : piece # " ") = <<>> THEN "{kind}: Empty prompt" ELSE "")])

\* get_default_brand_tokens
get_default_brand_tokens(theme) ==
    IF theme = "neon cyberpunk cityscape"
    THEN [primary_colors |-> <<"#FF00FF", "#00FFFF", "#FFD700">>,
          secondary_colors |-> <<"#1A1A2E", "#16213E", "#0F3460">>,
          texture |-> <<"wet glass with specular highlights, chrome reflections">>,
          composition |-> <<"rule of thirds, golden ratio focal point, dynamic asymmetry">>,
          lighting |-> <<"neon glow, strong backlight, volumetric fog, rim lighting">>,
          mood |-> <<"cyberpunk, energetic, futuristic, mysterious">>]
    ELSE [primary_colors |-> <<"#FF6B6B", "#4ECDC4", "#FFE66D">>,
          secondary_colors |-> <<"#2C2C2C", "#3D3D3D", "#4E4E4E">>,
          texture |-> <<"clean surface, subtle gradients">>,
          composition |-> <<"balanced layout, clear focal point">>,
          lighting |-> <<"soft natural light, balanced shadows">>,
          mood |-> <<"modern, professional, engaging">>]

\* adjust_brand_tokens_rule_based.  The string tests on a delta: mentions is
\* the token types whose keywords it holds (in the order of brand_keywords;
\* "color" is no key of the tokens), more whether it holds "add" or "more",
\* suggestion its last 5 words.
adjust_brand_tokens_rule_based(original_tokens, critic_deltas) ==
    LET d_add == "prompts.starting -> Add: 'strong central focal glow'"
        d_remove == "prompts.starting -> Remove: 'strong central focal glow'"
        d_adjust == "prompts.live -> Adjust: 'more backlight'"
        d_texture == "brand_tokens.texture -> Change: 'neon'"
        mentions(delta) ==
            CASE delta \in {d_add, d_remove} -> <<"composition", "lighting">>
              [] delta = d_adjust -> <<"lighting">>
              [] delta = d_texture -> <<"texture">>
              [] OTHER -> <<>>
        more(delta) == delta \in {d_add, d_adjust}
        suggestion(delta) ==
            IF delta = d_add THEN "Add: 'strong central focal glow'" ELSE delta
        one(tokens, delta) ==
            LET types == mentions(delta)
                step[j \in 0..Len(types)] ==
                    IF j = 0 THEN tokens
                    ELSE IF types[j] \in DOMAIN step[j - 1] /\ more(delta)
                    THEN [step[j - 1] EXCEPT ![types[j]] =
                             @ \o <<", ", suggestion(delta)>>]
                    ELSE step[j - 1]
            IN step[Len(types)]
        refined[i \in 0..Len(critic_deltas)] ==
            IF i = 0 THEN original_tokens ELSE one(refined[i - 1], critic_deltas[i])
    IN refined[Len(critic_deltas)]

\* adjust_brand_tokens_llm
adjust_brand_tokens_llm(original_tokens, critic_deltas, answer) ==
    IF ~answer.ok THEN adjust_brand_tokens_rule_based(original_tokens, critic_deltas)
    ELSE Get(answer.data, "refined_tokens", original_tokens)

\* adjust_brand_tokens
adjust_brand_tokens(original_tokens, critic_deltas, dry_run, llm) ==
    IF dry_run \/ critic_deltas = <<>> THEN original_tokens
    ELSE IF llm.available
    THEN adjust_brand_tokens_llm(original_tokens, critic_deltas, llm.tokens)
    ELSE adjust_brand_tokens_rule_based(original_tokens, critic_deltas)

\* update_config_prompts and update_config_brand_tokens on the data of
\* config.yaml
update_config_prompts(config, new_prompts, dry_run) ==
    IF dry_run THEN config ELSE [config EXCEPT !.prompts = new_prompts]
update_config_brand_tokens(config, new_brand_tokens, dry_run) ==
    IF dry_run THEN config ELSE [config EXCEPT !.brand_tokens = new_brand_tokens]

\* ------------------------------------------------ the pack directory (files)
\* A directory of images is [exists, files]; an image file is named by kind
\* and index and carries the round that generated it and its size in KB.
NoFiles == [exists |-> FALSE, files |-> {}]

\* files written into a directory replace the files of the same name
WriteAll(files, new) ==
    {g \in files : \A f \in new : <<g.kind, g.index>> # <<f.kind, f.index>>} \cup new

\* position of a file among the files of its kind, sorted by name
Rank(f, files) == Cardinality({g \in files : g.kind = f.kind /\ g.index <= f.index})

\* config.prompts.items(): the screen types of the config, in file order
ConfigKinds(config) == SelectSeq(ScreenTypes, LAMBDA kind : kind \in DOMAIN config.prompts)

\* the generate_image calls of build_pack in order: per kind the variants 1..n
Targets(config, num_variants) ==
    [j \in 1..(Len(ConfigKinds(config)) * num_variants) |->
        [kind |-> ConfigKinds(config)[((j - 1) \div num_variants) + 1],
         index |-> ((j - 1) % num_variants) + 1]]

\* build_pack: image is what generate_image yields in this round, generated
\* the number of calls of generate_image that succeed before one raises
build_pack(config, raw_dir, num_variants, dry_run, image, generated) ==
    IF dry_run THEN [raw |-> [exists |-> TRUE, files |-> raw_dir.files], raised |-> FALSE]
    ELSE [raw |-> [exists |-> TRUE,
                   files |-> WriteAll(raw_dir.files,
                                {[kind |-> Targets(config, num_variants)[j].kind,
                                  index |-> Targets(config, num_variants)[j].index,
                                  round |-> image.round, kb |-> image.kb] :
                                    j \in 1..generated})],
          raised |-> generated < Len(Targets(config, num_variants))]

\* auto_select_images
auto_select_images(raw_dir, selected_dir, dry_run) ==
    IF ~raw_dir.exists THEN selected_dir
    ELSE IF dry_run THEN [exists |-> TRUE, files |-> selected_dir.files]
    ELSE [exists |-> TRUE, files |-> raw_dir.files]

\* postprocess_selected: the selected images are renumbered per kind in name
\* order and written to 03_final/
postprocess_selected(selected_dir, final_dir, dry_run) ==
    IF dry_run THEN [exists |-> TRUE, files |-> final_dir.files]
    ELSE [exists |-> TRUE,
          files |-> WriteAll(final_dir.files,
                       {[kind |-> f.kind, index |-> Rank(f, selected_dir.files),
                         round |-> f.round, kb |-> f.kb] : f \in selected_dir.files})]

\* create_zip_for_screen_type takes the first max_variants files of the kind
\* and README.txt; PNG data does not deflate, the archive has the size of its
\* members
MAX_VARIANTS == 3
README_KB == 1

\* create_digital_delivery_files: 06_digital_delivery/ is made anew with one
\* archive per screen type
create_digital_delivery_files(final_dir, delivery_dir, dry_run) ==
    LET files == final_dir.files
        zip_kb(kind) ==
            SeqSum([r \in 1..MAX_VARIANTS |->
                       IF \E f \in files : f.kind = kind /\ Rank(f, files) = r
                       THEN (CHOOSE f \in files : f.kind = kind /\ Rank(f, files) = r).kb
                       ELSE 0]) + README_KB
    IN IF ~final_dir.exists THEN [delivery |-> delivery_dir, raised |-> TRUE]
       ELSE IF files = {} \/ dry_run
       THEN [delivery |-> delivery_dir, raised |-> FALSE]
       ELSE [delivery |-> [exists |-> TRUE,
                           zips |-> {[name |-> f.kind, kb |-> zip_kb(f.kind)] : f \in files}],
             raised |-> FALSE]

\* The pack as compute_automated_score, check_critical_issues and
\* evaluate_pack read it: the images of 03_final/ have the resolution of the
\* config; nothing in the pipeline writes listing_images/ or zips/.
PackDirOf(p) ==
    PackDir(IF p.final.exists
            THEN [exists |-> TRUE, pngs |-> Copies(OverlayOk, Cardinality(p.final.files))]
            ELSE NoDir,
            NoDir, NoDir)

\* The config work of run_round for round_num: the prompts are refined with
\* the deltas of the latest evaluation and written, then the brand tokens.
run_round_config(config, round_num, s, dry_run, llm) ==
    LET refined ==
            IF round_num > 1 /\ latest_deltas(s) # <<>>
            THEN update_config_prompts(
                     config, refine_prompts(config.prompts, latest_deltas(s), llm), dry_run)
            ELSE config
        brand_dict == IF refined.brand_tokens = None
                      THEN get_default_brand_tokens(refined.theme)
                      ELSE refined.brand_tokens
    IN IF round_num > 1 /\ Truthy(latest_evaluation(s))
       THEN update_config_brand_tokens(
                refined, adjust_brand_tokens(brand_dict, latest_deltas(s), dry_run, llm),
                dry_run)
       ELSE IF round_num = 1 /\ refined.brand_tokens = None
       THEN update_config_brand_tokens(refined, brand_dict, dry_run)
       ELSE refined

\* ------------------------------------------------------------------ state
VARIABLES
    pc,           \* position of the driver process ("idle": no process)
    ws,           \* the in-memory WorkflowState of the running driver
    state_file,   \* qa/workflow_state.json
    stop,         \* last result of check_stopping_conditions, and for how many rounds
    invocations,  \* number of driver invocations so far
    loaded,       \* the WorkflowState the current invocation started from
    resumed,      \* whether the current invocation loaded a persisted state
    ran,          \* round numbers run_round was called with in this invocation
    snap,         \* function-level harness: the state handed to save
    args,         \* dry_run and upload_to_etsy of the current invocation
    failed,       \* the round in which a collaborator raised (0: none)
    upload_result,\* what Phase 5 of the current invocation did
    qa_reports,   \* rounds N for which qa/roundNN.md exists
    final_pngs,   \* whether 03_final/ holds overlay images
    deliverables, \* whether listing photos and delivery archives exist
    etsy,         \* number of listings created in the shop
    summary,      \* what run_round of the running invocation last reported
    pack,         \* round-level harness: config.yaml and the image directories
    call,         \* function-level harnesses: the function called and its inputs
    ev            \* function-level harnesses: what the call returned

drv == <<args, failed, upload_result, qa_reports, final_pngs, deliverables, etsy,
         summary>>
rub == <<call, ev, pack>>
vars == <<pc, ws, state_file, stop, invocations, loaded, resumed, ran, snap,
          args, failed, upload_result, qa_reports, final_pngs, deliverables,
          etsy, summary, pack, call, ev>>

NoStop == [should_stop |-> FALSE, decision |-> "", reason |-> "",
           cont |-> TRUE, at |-> -1]

StopResult(s) ==
    [should_stop |-> check_stopping_conditions(s).should_stop,
     decision |-> check_stopping_conditions(s).decision,
     reason |-> check_stopping_conditions(s).reason,
     cont |-> should_continue(s).cont,
     at |-> Len(s.rounds)]

Running == {"loop", "round", "added", "saved", "final", "phase4", "phase5"}

NoCall == [op |-> "none"]

\* the pack as created: config.yaml with its prompts, no brand tokens, no
\* image directory
EmptyPack ==
    LET template == <<"a {theme} stream overlay for the {kind} screen">>
        config == [theme |-> "neon cyberpunk cityscape",
                   prompts |-> [starting |-> template, live |-> template],
                   brand_tokens |-> None]
    IN [config |-> config, before |-> config, round_base |-> config,
        attempts |-> 0, retry |-> FALSE,
        raw |-> NoFiles, selected |-> NoFiles, final |-> NoFiles,
        delivery |-> [exists |-> FALSE, zips |-> {}]]

NoSummary == [round_num |-> 0, decision |-> "", qa |-> ""]

\* The decision generate_qa_log writes under "Next Steps".
qa_decision(evaluation) ==
    IF passes_threshold(evaluation) THEN "COMPLETE"
    ELSE IF evaluation.critical_issues # <<>> THEN "BLOCKED"
    ELSE "CONTINUE"

\* What run_round reports for round_num: the PM decision it computes on the
\* workflow_state it was handed (the round is not appended yet) and the
\* decision of the QA report.
round_summary(round_num, s, evaluation) ==
    [round_num |-> round_num,
     decision |-> check_stopping_conditions(s).decision,
     qa |-> qa_decision(evaluation)]

\* a pack directory with its config.yaml and nothing generated yet
DriverIdle ==
    /\ args = [dry_run |-> FALSE, upload_to_etsy |-> FALSE]
    /\ failed = 0
    /\ upload_result = "none"
    /\ qa_reports = {}
    /\ final_pngs = FALSE
    /\ deliverables = FALSE
    /\ etsy = 0
    /\ summary = NoSummary
    /\ pack = EmptyPack

Init ==
    /\ pc = "idle"
    /\ ws = None
    /\ state_file = NoFile
    /\ stop = NoStop
    /\ invocations = 0
    /\ loaded = None
    /\ resumed = FALSE
    /\ ran = <<>>
    /\ snap = None
    /\ DriverIdle
    /\ call = NoCall
    /\ ev = None

\* mutant: on resume the arguments override the persisted control parameters
Invoke_arguments_override(max_rounds, quality_threshold, dry_run, upload_to_etsy) ==
    /\ pc \in {"idle", "done"}
    /\ invocations < MaxInvocations
    /\ invocations' = invocations + 1
    /\ ws' = IF state_file.exists
             THEN [load(state_file.data) EXCEPT !.max_rounds = max_rounds,
                                                !.quality_threshold = quality_threshold]
             ELSE create_new("demo", max_rounds, quality_threshold, "T1")
    /\ loaded' = ws'
    /\ resumed' = state_file.exists
    /\ ran' = <<>>
    /\ stop' = NoStop
    /\ args' = [dry_run |-> dry_run, upload_to_etsy |-> upload_to_etsy]
    /\ failed' = 0
    /\ upload_result' = "none"
    /\ summary' = NoSummary
    /\ pc' = "loop"
    /\ UNCHANGED <<state_file, snap, qa_reports, final_pngs, deliverables, etsy>>
    /\ UNCHANGED rub

\* run_multi_agent_workflow up to the loop: load the persisted state or
\* create a new one from the arguments.
Invoke(max_rounds, quality_threshold, dry_run, upload_to_etsy) ==
    /\ pc \in {"idle", "done"}
    /\ invocations < MaxInvocations
    /\ invocations' = invocations + 1
    /\ ws' = IF state_file.exists THEN load(state_file.data)
             ELSE create_new("demo", max_rounds, quality_threshold, "T1")
    /\ loaded' = ws'
    /\ resumed' = state_file.exists
    /\ ran' = <<>>
    /\ stop' = NoStop
    /\ args' = [dry_run |-> dry_run, upload_to_etsy |-> upload_to_etsy]
    /\ failed' = 0
    /\ upload_result' = "none"
    /\ summary' = NoSummary
    /\ pc' = "loop"
    /\ UNCHANGED <<state_file, snap, qa_reports, final_pngs, deliverables, etsy>>
    /\ UNCHANGED rub

\* mutant: the loop starts a round without consulting the stopping check
PreCheck_always_runs ==
    /\ pc = "loop"
    /\ Len(ws.rounds) < MaxRoundsBound + 2
    /\ ws' = ws
    /\ pc' = "round"
    /\ ran' = Append(ran, current_round(ws))
    /\ UNCHANGED <<state_file, stop, invocations, loaded, resumed, snap>>
    /\ UNCHANGED <<drv, rub>>

\* top of the while loop: the pre-check; either finalize and break, or
\* call run_round for current_round
PreCheck ==
    /\ pc = "loop"
    /\ IF ~should_continue(ws).cont
       THEN /\ ws' = finalize(ws, ReasonText("", should_continue(ws).reason))
            /\ pc' = "final"
            /\ ran' = ran
       ELSE /\ Len(ws.rounds) < MaxRoundsBound + 2
            /\ ws' = ws
            /\ pc' = "round"
            /\ ran' = Append(ran, current_round(ws))
    /\ UNCHANGED <<state_file, stop, invocations, loaded, resumed, snap>>
    /\ UNCHANGED <<drv, rub>>

\* run_round returns and the driver appends the round (add_round).  Under
\* dry_run nothing is generated and evaluate_pack needs images that are
\* already in 03_final/; the QA report of the round is written either way.
RunRound ==
    /\ pc = "round"
    /\ args.dry_run => final_pngs
    /\ \E e \in IF args.dry_run THEN DryRunEvaluations ELSE DriverEvaluations :
         /\ ws' = add_round(ws, run_round_result(ran[Len(ran)], ws, e))
         /\ summary' = round_summary(ran[Len(ran)], ws, e)
    /\ final_pngs' = TRUE
    /\ qa_reports' = qa_reports \cup {ran[Len(ran)]}
    /\ pc' = "added"
    /\ UNCHANGED <<state_file, stop, invocations, loaded, resumed, ran, snap>>
    /\ UNCHANGED <<args, failed, upload_result, deliverables, etsy>>
    /\ UNCHANGED rub

\* mutant: the error of a collaborator is swallowed and the loop goes on
RoundFails_swallowed ==
    /\ pc = "round"
    /\ failed' = ran[Len(ran)]
    /\ pc' = "loop"
    /\ final_pngs' \in IF args.dry_run THEN {final_pngs} ELSE {final_pngs, TRUE}
    /\ UNCHANGED <<ws, state_file, stop, invocations, loaded, resumed, ran, snap>>
    /\ UNCHANGED <<args, upload_result, qa_reports, deliverables, etsy, summary>>
    /\ UNCHANGED rub

\* a collaborator of run_round raises (generation, post-processing,
\* evaluate_pack): neither run_round nor the driver catches it, the process
\* ends; post-processing may already have written the final images
RoundFails ==
    /\ pc = "round"
    /\ failed' = ran[Len(ran)]
    /\ pc' = "idle"
    /\ ws' = None
    /\ loaded' = None
    /\ resumed' = FALSE
    /\ ran' = <<>>
    /\ stop' = NoStop
    /\ final_pngs' \in IF args.dry_run THEN {final_pngs} ELSE {final_pngs, TRUE}
    /\ summary' = NoSummary
    /\ UNCHANGED <<state_file, invocations, snap>>
    /\ UNCHANGED <<args, upload_result, qa_reports, deliverables, etsy>>
    /\ UNCHANGED rub

\* mutant: the round is appended but the state is not written
SaveAfterRound_skips_write ==
    /\ pc = "added"
    /\ pc' = "saved"
    /\ UNCHANGED <<ws, state_file, stop, invocations, loaded, resumed, ran, snap>>
    /\ UNCHANGED <<drv, rub>>

\* workflow_state.save(pack_dir) after the round
SaveAfterRound ==
    /\ pc = "added"
    /\ state_file' = File(save(ws))
    /\ pc' = "saved"
    /\ UNCHANGED <<ws, stop, invocations, loaded, resumed, ran, snap>>
    /\ UNCHANGED <<drv, rub>>

\* the post-check: check_stopping_conditions after adding the round
PostCheck ==
    /\ pc = "saved"
    /\ stop' = StopResult(ws)
    /\ IF check_stopping_conditions(ws).should_stop
       THEN /\ ws' = finalize(ws, ReasonText(check_stopping_conditions(ws).decision,
                                             check_stopping_conditions(ws).reason))
            /\ pc' = "final"
       ELSE /\ ws' = ws
            /\ pc' = "loop"
    /\ UNCHANGED <<state_file, invocations, loaded, resumed, ran, snap>>
    /\ UNCHANGED <<drv, rub>>

\* the final workflow_state.save(pack_dir) after the loop
FinalSave ==
    /\ pc = "final"
    /\ state_file' = File(save(ws))
    /\ pc' = "phase4"
    /\ UNCHANGED <<ws, stop, invocations, loaded, resumed, ran, snap>>
    /\ UNCHANGED <<drv, rub>>

\* Phase 4: listing photos and delivery archives are generated unless
\* dry_run; an error of either generator is logged and swallowed
Phase4 ==
    /\ pc = "phase4"
    /\ deliverables' \in IF args.dry_run THEN {deliverables} ELSE {deliverables, TRUE}
    /\ pc' = "phase5"
    /\ UNCHANGED <<ws, state_file, stop, invocations, loaded, resumed, ran, snap>>
    /\ UNCHANGED <<args, failed, upload_result, qa_reports, final_pngs, etsy, summary>>
    /\ UNCHANGED rub

\* Phase 5: upload_pack_to_etsy when upload_to_etsy and not dry_run.  It
\* raises before creating a listing when the deliverables or the credentials
\* are missing (the driver logs the error); otherwise it creates a listing
\* and publishes it, leaving a draft when publishing fails.
Phase5 ==
    /\ pc = "phase5"
    /\ IF args.upload_to_etsy /\ ~args.dry_run
       THEN \/ /\ upload_result' = "failed"
               /\ etsy' = etsy
            \/ /\ deliverables
               /\ upload_result' \in {"active", "draft"}
               /\ etsy' = etsy + 1
       ELSE /\ upload_result' = "skipped"
            /\ etsy' = etsy
    /\ pc' = "done"
    /\ UNCHANGED <<ws, state_file, stop, invocations, loaded, resumed, ran, snap>>
    /\ UNCHANGED <<args, failed, qa_reports, final_pngs, deliverables, summary>>
    /\ UNCHANGED rub

\* the process is terminated: the in-memory state is lost, the files stay
Interrupt ==
    /\ pc \in Running
    /\ pc' = "idle"
    /\ ws' = None
    /\ loaded' = None
    /\ resumed' = FALSE
    /\ ran' = <<>>
    /\ stop' = NoStop
    /\ summary' = NoSummary
    /\ UNCHANGED <<state_file, invocations, snap>>
    /\ UNCHANGED <<args, failed, upload_result, qa_reports, final_pngs, deliverables, etsy>>
    /\ UNCHANGED rub

\* under dry_run with no image in 03_final/ evaluate_pack raises
\* FileNotFoundError: the failure is the step the round takes
RoundWithoutImages == args.dry_run /\ ~final_pngs /\ RoundFails

DriverStep ==
    \/ PreCheck \/ RunRound \/ RoundWithoutImages \/ SaveAfterRound
    \/ PostCheck \/ FinalSave \/ Phase4 \/ Phase5

Next ==
    \/ \E m \in 1..MaxRoundsBound, t \in ThresholdValues, d \in BOOLEAN, u \in BOOLEAN :
         Invoke(m, t, d, u)
    \/ PreCheck
    \/ RunRound
    \/ RoundFails
    \/ SaveAfterRound
    \/ PostCheck
    \/ FinalSave
    \/ Phase4
    \/ Phase5
    \/ Interrupt

Spec == Init /\ [][Next]_vars

\* The driver under the scheduling the code has: a running process takes its
\* next step.
LiveSpec == Init /\ [][Next]_vars /\ WF_vars(DriverStep)


\* --------------------------------------------- function-level specification
\* WorkflowState values a caller can construct: any number of rounds up to
\* MaxLen, numbered 1.., each with or without an evaluation.
FnEvaluations ==
    LET score(sc, c) == EvaluationScore("technical_quality", sc, 100, "automated", c)
    IN {PackEvaluation("demo", sc, IF c = <<>> THEN <<>> ELSE <<score(sc, c)>>,
                       c, SelectedImages, <<"delta">>, c = <<>>) :
           sc \in ScoreValues, c \in CriticalChoices}

FnStates ==
    LET rounds(i) ==
            {RoundState(i, "T1", Prompts("P0"), e, determine_variant_count(i, 0),
                        DEFAULT_ROUND_COST) : e \in FnEvaluations \cup {None}}
            \cup {RoundState(i, "T2", Prompts("P1"), None, 0, DEFAULT_ROUND_COST)}
        round_seqs ==
            UNION {{q \in [1..k -> UNION {rounds(i) : i \in 1..MaxLen}] :
                       \A i \in 1..k : q[i].round_num = i} : k \in 0..MaxLen}
        completions ==
            {[completed |-> FALSE, reason |-> ReasonText("", "")],
             [completed |-> TRUE,
              reason |-> ReasonText("PASS", "PASS - Score {s} >= threshold {t}")]}
    IN {WorkflowState("demo", "T1", m, t, q, c.completed, c.reason) :
           m \in 1..MaxRoundsBound, t \in FnThresholdValues, q \in round_seqs,
           c \in completions}

FnInit ==
    /\ pc = "fn"
    /\ ws \in FnStates
    /\ state_file = NoFile
    /\ stop = NoStop
    /\ invocations = 0
    /\ loaded = None
    /\ resumed = FALSE
    /\ ran = <<>>
    /\ snap = None
    /\ DriverIdle
    /\ call = NoCall
    /\ ev = None

\* a caller runs the stopping check on the state
FnCheck ==
    /\ pc = "fn"
    /\ stop' = StopResult(ws)
    /\ pc' = "checked"
    /\ UNCHANGED <<ws, state_file, invocations, loaded, resumed, ran, snap>>
    /\ UNCHANGED <<drv, rub>>

\* a caller saves the state
FnSave ==
    /\ pc = "fn"
    /\ state_file' = File(save(ws))
    /\ snap' = ws
    /\ pc' = "fsaved"
    /\ UNCHANGED <<ws, stop, invocations, loaded, resumed, ran>>
    /\ UNCHANGED <<drv, rub>>

\* a caller loads the saved file
FnLoad ==
    /\ pc = "fsaved"
    /\ ws' = load(state_file.data)
    /\ pc' = "floaded"
    /\ UNCHANGED <<state_file, stop, invocations, loaded, resumed, ran, snap>>
    /\ UNCHANGED <<drv, rub>>

\* a caller saves the state it has just loaded
FnResave ==
    /\ pc = "floaded"
    /\ state_file' = File(save(ws))
    /\ pc' = "resaved"
    /\ UNCHANGED <<ws, stop, invocations, loaded, resumed, ran, snap>>
    /\ UNCHANGED <<drv, rub>>

\* a caller finalizes the state
FnFinalize ==
    /\ pc = "fn"
    /\ ws' = finalize(ws, ReasonText("PASS", "PASS - Score {s} >= threshold {t}"))
    /\ snap' = ws
    /\ pc' = "finalized"
    /\ UNCHANGED <<state_file, stop, invocations, loaded, resumed, ran>>
    /\ UNCHANGED <<drv, rub>>

\* a caller appends the next round to the state it has finalized
FnAddRound ==
    /\ pc = "finalized"
    /\ \E e \in {FnEval \in FnEvaluations : FnEval.overall_score = 75} :
         ws' = add_round(ws, run_round_result(current_round(ws), ws, e))
    /\ snap' = ws
    /\ pc' = "appended"
    /\ UNCHANGED <<state_file, stop, invocations, loaded, resumed, ran>>
    /\ UNCHANGED <<drv, rub>>

FnNext == FnCheck \/ FnSave \/ FnLoad \/ FnResave \/ FnFinalize \/ FnAddRound

FnSpec == FnInit /\ [][FnNext]_vars

\* ------------------------------------------ rubric-level specification (run)
RubricInit ==
    /\ pc = "call"
    /\ call \in Calls
    /\ ev = None
    /\ ws = None
    /\ state_file = NoFile
    /\ stop = NoStop
    /\ invocations = 0
    /\ loaded = None
    /\ resumed = FALSE
    /\ ran = <<>>
    /\ snap = None
    /\ DriverIdle

\* evaluate_pack is called
Evaluate ==
    /\ pc = "call"
    /\ call.op = "evaluate"
    /\ ev' = evaluate_pack("demo", call.pack_dir, call.api_key, call.dry_run,
                           call.response)
    /\ pc' = "returned"
    /\ UNCHANGED <<pack, call, ws, state_file, stop, invocations, loaded, resumed, ran, snap>>
    /\ UNCHANGED drv

\* compute_automated_score is called
Score ==
    /\ pc = "call"
    /\ call.op = "score"
    /\ ev' = compute_automated_score(call.pack_dir)
    /\ pc' = "returned"
    /\ UNCHANGED <<pack, call, ws, state_file, stop, invocations, loaded, resumed, ran, snap>>
    /\ UNCHANGED drv

\* calculate_overall_score is called
Aggregate ==
    /\ pc = "call"
    /\ call.op = "aggregate"
    /\ ev' = calculate_overall_score(call.dimension_scores)
    /\ pc' = "returned"
    /\ UNCHANGED <<pack, call, ws, state_file, stop, invocations, loaded, resumed, ran, snap>>
    /\ UNCHANGED drv

\* run_round hands the PackEvaluation back and the driver appends round 1 to
\* a new WorkflowState, then runs the post-check on it
Decide ==
    /\ pc = "returned"
    /\ call.op = "evaluate"
    /\ ev.ok
    /\ \E m \in 1..MaxRoundsBound, t \in ThresholdValues :
         LET s == add_round(create_new("demo", m, t, "T1"),
                            run_round_result(1, create_new("demo", m, t, "T1"),
                                             OnGrid(ev.value)))
         IN /\ stop' = StopResult(s)
            /\ ws' = IF check_stopping_conditions(s).should_stop
                     THEN finalize(s, ReasonText(check_stopping_conditions(s).decision,
                                                 check_stopping_conditions(s).reason))
                     ELSE s
    /\ pc' = "decided"
    /\ UNCHANGED <<pack, call, ev, state_file, invocations, loaded, resumed, ran, snap>>
    /\ UNCHANGED drv

RubricNext == Evaluate \/ Score \/ Aggregate \/ Decide

RubricSpec == RubricInit /\ [][RubricNext]_vars


\* ------------------------------------ image-generation specification (run)
\* generate_image and its chain of models.  What the API does for one model
\* of the chain: generate_content yields an image; it yields none and the
\* generate_images fallback yields one; neither yields one; the call raises a
\* ClientError with a status code and, possibly, a RetryInfo delay in
\* seconds; the call raises something else.
GenCalls ==
    LET no_delay == NoScore
        outcomes ==
            {[kind |-> "image"], [kind |-> "images_fallback"], [kind |-> "no_image"],
             [kind |-> "exception"]}
            \cup {[kind |-> "client_error", status |-> st, delay |-> d] :
                     st \in {429, 500}, d \in {no_delay, 0, 30}}
        chains == UNION {[1..k -> outcomes] : k \in 1..MaxModels}
    IN {[op |-> "generate_image", dry_run |-> d, api_key |-> k, chain |-> c] :
           d \in BOOLEAN, k \in BOOLEAN, c \in chains}

\* _extract_pil_image found an image in one of the two responses
Yields(outcome) == outcome.kind \in {"image", "images_fallback"}

\* _handle_quota_error and the status test: a 429 with a truthy delay
QuotaDelay(outcome) ==
    IF outcome.kind = "client_error" /\ outcome.status = 429 /\ FloatTruthy(outcome.delay)
    THEN outcome.delay
    ELSE 0

GenInit ==
    /\ pc = "gen"
    /\ call \in GenCalls
    /\ ev = [i |-> 0, log |-> <<>>, result |-> None]
    /\ ws = None
    /\ state_file = NoFile
    /\ stop = NoStop
    /\ invocations = 0
    /\ loaded = None
    /\ resumed = FALSE
    /\ ran = <<>>
    /\ snap = None
    /\ DriverIdle

\* generate_image up to the loop: the placeholder under dry_run, else the
\* client, whose settings need GEMINI_API_KEY
GenCall ==
    /\ pc = "gen"
    /\ IF call.dry_run
       THEN /\ ev' = [ev EXCEPT !.result = Returned([model |-> 0])]
            /\ pc' = "gdone"
       ELSE IF ~call.api_key
       THEN /\ ev' = [ev EXCEPT !.result = Raised("RuntimeError")]
            /\ pc' = "gdone"
       ELSE /\ ev' = [ev EXCEPT !.i = 1]
            /\ pc' = "try"
    /\ UNCHANGED <<pack, call, ws, state_file, stop, invocations, loaded, resumed, ran, snap>>
    /\ UNCHANGED drv

\* mutant: an error of a model other than a quota error ends the chain
GenAttempt_stops_on_error ==
    /\ pc = "try"
    /\ ev.i <= Len(call.chain)
    /\ LET tried == Append(ev.log, [event |-> "call", model |-> ev.i])
       IN IF Yields(call.chain[ev.i])
          THEN /\ ev' = [i |-> ev.i, log |-> tried, result |-> Returned([model |-> ev.i])]
               /\ pc' = "gdone"
          ELSE IF QuotaDelay(call.chain[ev.i]) > 0
          THEN /\ ev' = [ev EXCEPT !.log = tried]
               /\ pc' = "sleep"
          ELSE IF call.chain[ev.i].kind = "client_error" /\ call.chain[ev.i].status = 429
          THEN /\ ev' = [ev EXCEPT !.i = @ + 1, !.log = tried]
               /\ pc' = "try"
          ELSE /\ ev' = [i |-> ev.i, log |-> tried, result |-> Raised("RuntimeError")]
               /\ pc' = "gdone"
    /\ UNCHANGED <<pack, call, ws, state_file, stop, invocations, loaded, resumed, ran, snap>>
    /\ UNCHANGED drv

\* one iteration of the loop over the models: the image is returned, or the
\* error is caught and the loop goes to the next model, after the sleep when
\* a quota error came with a delay
GenAttempt ==
    /\ pc = "try"
    /\ ev.i <= Len(call.chain)
    /\ LET tried == Append(ev.log, [event |-> "call", model |-> ev.i])
       IN IF Yields(call.chain[ev.i])
          THEN /\ ev' = [i |-> ev.i, log |-> tried, result |-> Returned([model |-> ev.i])]
               /\ pc' = "gdone"
          ELSE IF QuotaDelay(call.chain[ev.i]) > 0
          THEN /\ ev' = [ev EXCEPT !.log = tried]
               /\ pc' = "sleep"
          ELSE /\ ev' = [ev EXCEPT !.i = @ + 1, !.log = tried]
               /\ pc' = "try"
    /\ UNCHANGED <<pack, call, ws, state_file, stop, invocations, loaded, resumed, ran, snap>>
    /\ UNCHANGED drv

\* time.sleep(delay), then the next model
GenSleep ==
    /\ pc = "sleep"
    /\ ev' = [ev EXCEPT !.i = @ + 1,
                        !.log = Append(@, [event |-> "sleep",
                                           seconds |-> QuotaDelay(call.chain[ev.i])])]
    /\ pc' = "try"
    /\ UNCHANGED <<pack, call, ws, state_file, stop, invocations, loaded, resumed, ran, snap>>
    /\ UNCHANGED drv

\* the loop is exhausted: RuntimeError("All Gemini image models failed")
GenRaise ==
    /\ pc = "try"
    /\ ev.i > Len(call.chain)
    /\ ev' = [ev EXCEPT !.result = Raised("RuntimeError")]
    /\ pc' = "gdone"
    /\ UNCHANGED <<pack, call, ws, state_file, stop, invocations, loaded, resumed, ran, snap>>
    /\ UNCHANGED drv

GenNext == GenCall \/ GenAttempt \/ GenSleep \/ GenRaise

GenSpec == GenInit /\ [][GenNext]_vars

\* ---------------------------------------------- resume specification (driver)
\* The driver invoked for a pack whose workflow_state.json exists: call holds
\* the max_rounds and quality_threshold arguments of the invocation and the
\* state that was persisted when the pack was first resumed.  The persisted
\* states are those of an interrupted workflow: k rounds below the threshold,
\* at most max_rounds of them, not finalized.
ResumeCalls ==
    LET evaluation ==
            PackEvaluation("demo", 75, <<>>, <<>>, SelectedImages, <<"delta">>, TRUE)
        rounds(s, k) ==
            LET q[i \in 0..k] ==
                    IF i = 0 THEN s
                    ELSE add_round(q[i - 1], run_round_result(i, q[i - 1], evaluation))
            IN q[k]
        states ==
            {rounds(create_new("demo", x.m, t, "T1"), x.k) :
                x \in {y \in [m : 1..MaxRoundsBound, k : 1..2] : y.k <= y.m},
                t \in {PASS_SCORE, 90}}
    IN {[op |-> "resume", max_rounds |-> m, quality_threshold |-> t, persisted |-> s] :
           m \in {1, MaxRoundsBound}, t \in {70, PASS_SCORE}, s \in states}

ResumeInit ==
    /\ pc = "idle"
    /\ call \in ResumeCalls
    /\ state_file = File(save(call.persisted))
    /\ ws = None
    /\ stop = NoStop
    /\ invocations = 0
    /\ loaded = None
    /\ resumed = FALSE
    /\ ran = <<>>
    /\ snap = None
    /\ ev = None
    /\ args = [dry_run |-> FALSE, upload_to_etsy |-> FALSE]
    /\ failed = 0
    /\ upload_result = "none"
    /\ qa_reports = 1..Len(call.persisted.rounds)
    /\ final_pngs = TRUE
    /\ deliverables = FALSE
    /\ etsy = 0
    /\ summary = NoSummary
    /\ pack = EmptyPack

\* run_multi_agent_workflow(pack, max_rounds, quality_threshold, ...)
ResumeInvoke ==
    \E d \in BOOLEAN, u \in BOOLEAN :
        Invoke(call.max_rounds, call.quality_threshold, d, u)

ResumeNext ==
    \/ ResumeInvoke
    \/ PreCheck
    \/ RunRound
    \/ RoundFails
    \/ SaveAfterRound
    \/ PostCheck
    \/ FinalSave
    \/ Phase4
    \/ Phase5
    \/ Interrupt

ResumeSpec == ResumeInit /\ [][ResumeNext]_vars

\* ------------------------------------------- round-level specification (run)
\* run_round step by step on the pack directory: the config work, the
\* generation, the selection, the post-processing and the evaluation; then
\* Phase 4 and a later evaluation of the pack.
\* What the evaluation model answers in a round: an API error, or a
\* well-formed answer with the deltas for the next round.
PackResponses ==
    LET d_add == "prompts.starting -> Add: 'strong central focal glow'"
        d_change == "prompts.live -> Change: 'neon'"
        d_remove == "prompts.starting -> Remove: 'strong central focal glow'"
        d_adjust == "prompts.live -> Adjust: 'more backlight'"
        d_emphasize == "prompts.live -> Emphasize: 'neon'"
        d_texture == "brand_tokens.texture -> Change: 'neon'"
        d_error == "ERROR: Failed to parse Critic response, only automated checks applied"
        delta_lists ==
            {<<>>, <<d_add>>, <<d_change, d_error, d_texture>>,
             <<d_adjust, d_remove, d_emphasize>>}
    IN {[kind |-> "api_error"]}
       \cup {[kind |-> "text",
              text |-> [fence |-> "none",
                        body |-> [json |-> TRUE,
                                  data |-> [dimension_scores |-> <<LLMDim(80, 100)>>,
                                            overall_score |-> Float(75),
                                            deltas |-> ds,
                                            selected_images |-> SelectedImages]]]] :
                ds \in delta_lists}

\* A call of run_round: dry_run, the size of the images generate_image
\* yields, and the refinement LLM (not available, failing, or answering for
\* the prompts and for the brand tokens).
PackCalls ==
    LET llms ==
            {[available |-> FALSE],
             [available |-> TRUE, prompts |-> [ok |-> FALSE], tokens |-> [ok |-> FALSE]],
             [available |-> TRUE,
              prompts |-> [ok |-> TRUE,
                           data |-> [refined_prompts |->
                                        [starting |-> <<>>,
                                         live |-> <<"<a phrase of 2001 characters>">>]]],
              tokens |-> [ok |-> TRUE, data |-> << >>]],
             [available |-> TRUE,
              prompts |-> [ok |-> TRUE, data |-> << >>],
              tokens |-> [ok |-> TRUE,
                          data |-> [refined_tokens |-> get_default_brand_tokens("pastel")]]]}
    IN {[op |-> "run_round", dry_run |-> d, kb |-> k, llm |-> l] :
           d \in BOOLEAN, k \in {2000, 8000}, l \in llms}

PackInit ==
    /\ pc = "rr"
    /\ call \in PackCalls
    /\ ws \in {create_new("demo", m, PASS_SCORE, "T1") : m \in 1..MaxRoundsBound}
    /\ ev = None
    /\ state_file = NoFile
    /\ stop = NoStop
    /\ invocations = 0
    /\ loaded = None
    /\ resumed = FALSE
    /\ ran = <<>>
    /\ snap = None
    /\ DriverIdle

\* run_round up to build_pack: config.yaml is loaded, refined and written
Prepare ==
    /\ pc = "rr"
    /\ pack' = [pack EXCEPT
                  !.config = run_round_config(pack.config, current_round(ws), ws,
                                              call.dry_run, call.llm),
                  !.before = pack.config,
                  !.round_base = IF pack.retry THEN @ ELSE pack.config]
    /\ pc' = "build"
    /\ UNCHANGED <<call, ev, ws, state_file, stop, invocations, loaded, resumed, ran, snap>>
    /\ UNCHANGED drv

\* build_pack: every image is generated, or generate_image raises after some
Build ==
    /\ pc = "build"
    /\ \E generated \in 0..Len(Targets(pack.config,
                                       determine_variant_count(current_round(ws),
                                                               ws.max_rounds))) :
         LET built == build_pack(pack.config, pack.raw,
                                 determine_variant_count(current_round(ws), ws.max_rounds),
                                 call.dry_run,
                                 [round |-> current_round(ws), kb |-> call.kb], generated)
         IN /\ pack' = [pack EXCEPT !.raw = built.raw]
            /\ pc' = IF built.raised THEN "aborted" ELSE "select"
    /\ UNCHANGED <<call, ev, ws, state_file, stop, invocations, loaded, resumed, ran, snap>>
    /\ UNCHANGED drv

\* auto_select_images
Select ==
    /\ pc = "select"
    /\ pack' = [pack EXCEPT !.selected = auto_select_images(pack.raw, pack.selected,
                                                            call.dry_run)]
    /\ pc' = "post"
    /\ UNCHANGED <<call, ev, ws, state_file, stop, invocations, loaded, resumed, ran, snap>>
    /\ UNCHANGED drv

\* postprocess_selected
Postprocess ==
    /\ pc = "post"
    /\ pack' = [pack EXCEPT !.final = postprocess_selected(pack.selected, pack.final,
                                                           call.dry_run)]
    /\ pc' = "evaluate"
    /\ UNCHANGED <<call, ev, ws, state_file, stop, invocations, loaded, resumed, ran, snap>>
    /\ UNCHANGED drv

\* evaluate_pack and the rest of run_round; the driver appends the round and
\* runs the post-check.  An error of evaluate_pack aborts the round.
EvaluateRound ==
    /\ pc = "evaluate"
    /\ \E response \in PackResponses :
         LET result == evaluate_pack("demo", PackDirOf(pack), TRUE, call.dry_run, response)
             appended ==
                 add_round(ws, RoundState(current_round(ws), "T1", pack.config.prompts,
                                          OnGrid(result.value),
                                          determine_variant_count(current_round(ws),
                                                                  ws.max_rounds),
                                          DEFAULT_ROUND_COST))
         IN /\ ev' = result
            /\ IF result.ok
               THEN /\ ws' = appended
                    /\ pack' = [pack EXCEPT !.retry = FALSE]
                    /\ pc' = IF check_stopping_conditions(appended).should_stop
                             THEN "finished" ELSE "rr"
               ELSE /\ ws' = ws
                    /\ pack' = pack
                    /\ pc' = "aborted"
    /\ UNCHANGED <<call, state_file, stop, invocations, loaded, resumed, ran, snap>>
    /\ UNCHANGED drv

\* the driver is invoked again after the failure: it loads the state with
\* the rounds before the failed one and calls run_round for the same round
Rerun ==
    /\ pc = "aborted"
    /\ pack.attempts < MaxAborts
    /\ pack' = [pack EXCEPT !.attempts = @ + 1, !.retry = TRUE]
    /\ pc' = "rr"
    /\ UNCHANGED <<call, ev, ws, state_file, stop, invocations, loaded, resumed, ran, snap>>
    /\ UNCHANGED drv

\* Phase 4 after the loop: create_digital_delivery_files (an error is logged)
Deliver ==
    /\ pc = "finished"
    /\ pack' = [pack EXCEPT !.delivery =
                   create_digital_delivery_files(pack.final, pack.delivery,
                                                 call.dry_run).delivery]
    /\ pc' = "delivered"
    /\ UNCHANGED <<call, ev, ws, state_file, stop, invocations, loaded, resumed, ran, snap>>
    /\ UNCHANGED drv

\* the pack is evaluated again after its archives were produced
EvaluateAgain ==
    /\ pc = "delivered"
    /\ \E response \in PackResponses :
         ev' = evaluate_pack("demo", PackDirOf(pack), TRUE, call.dry_run, response)
    /\ pc' = "reevaluated"
    /\ UNCHANGED <<pack, call, ws, state_file, stop, invocations, loaded, resumed, ran, snap>>
    /\ UNCHANGED drv

PackNext ==
    \/ Prepare \/ Build \/ Select \/ Postprocess \/ EvaluateRound \/ Rerun
    \/ Deliver \/ EvaluateAgain

PackSpec == PackInit /\ [][PackNext]_vars


\* ------------------------------------------------------------------ claims
\* Vocabulary of the stopping rules as the documentation states them.
HasEvaluation(s) == s.rounds # <<>> /\ Truthy(latest_evaluation(s))
HasCritical(e) == e.critical_issues # <<>>
MeetsThreshold(e, s) == e.overall_score >= s.quality_threshold
PersistedRounds == IF state_file.exists THEN state_file.data.rounds ELSE <<>>
IsPrefix(p, q) == Len(p) <= Len(q) /\ SubSeq(q, 1, Len(p)) = p

\* C1: whenever the stopping check is run on a state whose latest evaluation
\* has critical issues, it says stop with decision BLOCKED (never PASS, never
\* continue), whatever the score, the threshold and the number of rounds.
C1_CriticalAlwaysBlocked ==
    (pc = "checked" /\ HasEvaluation(ws) /\ HasCritical(latest_evaluation(ws)))
        => (stop.should_stop /\ stop.decision = "BLOCKED" /\ ~stop.cont)

C1_Witness ==
    /\ pc = "checked"
    /\ HasEvaluation(ws)
    /\ HasCritical(latest_evaluation(ws))
    /\ latest_evaluation(ws).overall_score = 100
    /\ ws.quality_threshold = 0
    /\ Len(ws.rounds) < ws.max_rounds
    /\ stop.decision = "BLOCKED"

\* C2: after a round whose evaluation has no critical issues and a score at
\* or above quality_threshold, the post-check stops with decision PASS.
C2_PassAtThreshold ==
    (pc \in {"loop", "final"} /\ stop.at = Len(ws.rounds) /\ stop.at >= 1
     /\ ~HasCritical(latest_evaluation(ws))
     /\ MeetsThreshold(latest_evaluation(ws), ws))
        => (stop.should_stop /\ stop.decision = "PASS")

C3_RoundTerminal(i) ==
    HasCritical(ws.rounds[i].evaluation) \/ MeetsThreshold(ws.rounds[i].evaluation, ws)

\* C3: a fresh, uninterrupted run ends with exactly N rounds, N being the
\* first round that has critical issues or meets quality_threshold, or
\* max_rounds when no round does; every round run is recorded once.
C3_ExactlyNRounds ==
    (pc = "done" /\ ~resumed)
        => /\ Len(ws.rounds) >= 1
           /\ \A i \in 1..(Len(ws.rounds) - 1) : ~C3_RoundTerminal(i)
           /\ C3_RoundTerminal(Len(ws.rounds)) \/ Len(ws.rounds) = ws.max_rounds
           /\ ran = [i \in 1..Len(ws.rounds) |-> i]

\* C4: the number of recorded rounds, in memory and on disk, never exceeds
\* max_rounds, and run_round is never called for round max_rounds + 1,
\* across interruptions and re-invocations.
C4_MaxRoundsCeiling ==
    /\ pc # "idle" => Len(ws.rounds) <= ws.max_rounds
    /\ state_file.exists => Len(state_file.data.rounds) <= state_file.data.max_rounds
    /\ pc = "round" => ran[Len(ran)] <= ws.max_rounds

C4_Witness ==
    /\ pc = "done"
    /\ invocations >= 2
    /\ Len(ws.rounds) = ws.max_rounds
    /\ ws.max_rounds >= 2
    /\ \A i \in 1..Len(ws.rounds) : ws.rounds[i].evaluation.overall_score = 75
    /\ ~HasCritical(latest_evaluation(ws))

C5_Finalized ==
    pc = "done" /\ ws.completed /\ ws.completion_reason.text # ""

\* C5: a running driver eventually finalizes the state (completed, with a
\* completion reason) and reaches its end, unless the process is terminated.
C5_DriverTerminates == (pc \in Running) ~> (C5_Finalized \/ pc = "idle")

C5_Witness ==
    /\ C5_Finalized
    /\ Len(ws.rounds) = MaxRoundsBound
    /\ ws.completion_reason.text = "Max rounds reached with score {s}/10"

C6_NotPassing(s) ==
    /\ HasEvaluation(s)
    /\ ~HasCritical(latest_evaluation(s))
    /\ \/ ~passes_threshold(latest_evaluation(s))
       \/ ~MeetsThreshold(latest_evaluation(s), s)

\* C6: at current_round = max_rounds + 1, with a latest evaluation that has no
\* critical issues and does not pass, the stopping check says stop.
C6_CeilingIsTerminal ==
    (pc = "checked" /\ current_round(ws) = ws.max_rounds + 1 /\ C6_NotPassing(ws))
        => (stop.should_stop /\ ~stop.cont)

C6_Witness ==
    /\ pc = "checked"
    /\ current_round(ws) = ws.max_rounds + 1
    /\ C6_NotPassing(ws)
    /\ latest_evaluation(ws).overall_score = 75
    /\ ws.quality_threshold = 85
    /\ stop.should_stop
    /\ stop.reason = "Max rounds reached with score {s}/10"

\* C7: when run_round is started and when the loop has finalized, the state
\* file holds exactly the rounds held in memory.
C7_PersistedBeforeNextRound ==
    pc \in {"round", "final"} => PersistedRounds = RoundsToJson(ws.rounds)

C7_Witness ==
    /\ pc = "round"
    /\ Len(ws.rounds) >= 1
    /\ state_file.exists
    /\ ~resumed

\* C8: a driver that resumed from k persisted rounds runs rounds k+1, k+2, ..
\* and keeps the k persisted rounds as the first k entries, in memory and on
\* disk.
C8_ResumeContinues ==
    (pc \in Running \cup {"done"} /\ resumed)
        => /\ IsPrefix(loaded.rounds, ws.rounds)
           /\ IsPrefix(RoundsToJson(loaded.rounds), PersistedRounds)
           /\ \A i \in 1..Len(ran) : ran[i] = Len(loaded.rounds) + i

C8_Witness ==
    /\ pc = "done"
    /\ resumed
    /\ ~loaded.completed
    /\ Len(loaded.rounds) >= 1
    /\ Len(ws.rounds) > Len(loaded.rounds)
    /\ ran[1] = Len(loaded.rounds) + 1

C9_Terminal(s) ==
    \/ HasEvaluation(s) /\ HasCritical(latest_evaluation(s))
    \/ HasEvaluation(s) /\ MeetsThreshold(latest_evaluation(s), s)
    \/ current_round(s) > s.max_rounds

\* C9: a driver invoked on a persisted state that is already terminal (latest
\* evaluation blocked or meeting the threshold, or current_round > max_rounds)
\* runs no round and leaves the rounds as persisted.
C9_NoRoundWhenTerminal ==
    (pc \in Running \cup {"done"} /\ resumed /\ C9_Terminal(loaded))
        => (ran = <<>> /\ ws.rounds = loaded.rounds)

C10_LoadedEqualsSaved == pc \in {"floaded", "resaved"} => ws = snap

\* C10: save followed by load gives back the state that was saved, and saving
\* the loaded state writes the same document again.
C10_RoundTrip ==
    /\ [](C10_LoadedEqualsSaved)
    /\ [][pc = "floaded" => state_file' = state_file]_vars

C10_Witness ==
    /\ pc = "resaved"
    /\ Len(ws.rounds) = 2
    /\ ws.rounds[1].evaluation # None
    /\ ws.rounds[1].evaluation.dimension_scores # <<>>
    /\ ws.rounds[2].evaluation = None
    /\ ws.completed

\* C11: the rounds held in memory and on disk are numbered 1, 2, .. without
\* gaps, current_round is one more than their number, and every run_round
\* that returned for round N has appended exactly one round, numbered N.
C11_RoundNumbering ==
    /\ pc # "idle" =>
         /\ \A i \in 1..Len(ws.rounds) : ws.rounds[i].round_num = i
         /\ current_round(ws) = Len(ws.rounds) + 1
         /\ Len(ws.rounds) =
              Len(loaded.rounds) + Len(ran) - (IF pc = "round" THEN 1 ELSE 0)
    /\ \A i \in 1..Len(PersistedRounds) : PersistedRounds[i].round_num = i
    /\ pc = "added" => ws.rounds[Len(ws.rounds)].round_num = ran[Len(ran)]

C11_Witness ==
    /\ pc = "added"
    /\ resumed
    /\ Len(loaded.rounds) = 1
    /\ Len(ws.rounds) = 2
    /\ ws.rounds[2].round_num = 2

\* C12: the rounds of a completed state never grow, whatever is called on it
\* (add_round, finalize, save, load).
C12_CompletedNeverGrows == [][ws.completed => Len(ws'.rounds) <= Len(ws.rounds)]_vars

\* C13: after a collaborator of round N has raised, the process has ended
\* without starting another round, and the state file holds exactly the
\* rounds 1..N-1 and is not marked completed.
C13_FailurePropagates ==
    failed # 0 =>
        /\ pc = "idle"
        /\ ran = <<>>
        /\ Len(PersistedRounds) = failed - 1
        /\ \A i \in 1..Len(PersistedRounds) : PersistedRounds[i].round_num = i
        /\ state_file.exists => ~state_file.data.completed

C13_Witness ==
    /\ failed = 2
    /\ pc = "idle"
    /\ state_file.exists
    /\ Len(PersistedRounds) = 1
    /\ ~args.dry_run

C14_ParseFails(c) ==
    /\ c.op = "evaluate"
    /\ c.api_key
    /\ ~c.dry_run
    /\ c.pack_dir.final.exists
    /\ c.pack_dir.final.pngs # <<>>
    /\ c.response.kind = "text"
    /\ c.response.text.fence = "unclosed" \/ ~c.response.text.body.json

C15_BlockedNeverUploaded ==
    (pc = "done" /\ upload_result \in {"active", "draft"})
        => ~HasCritical(latest_evaluation(ws))

\* C16: the post-check of a round whose score is below quality_threshold
\* does not decide PASS.
C16_NoPassBelowThreshold ==
    (pc \in {"loop", "final"} /\ stop.at = Len(ws.rounds) /\ stop.at >= 1
     /\ ~MeetsThreshold(latest_evaluation(ws), ws))
        => stop.decision # "PASS"

\* C17: the overall score of every evaluation evaluate_pack returns is the
\* aggregate of that evaluation's own dimension scores.
C17_OverallIsAggregate ==
    (pc = "returned" /\ call.op = "evaluate" /\ ev.ok)
        => FloatEq(ev.value.overall_score,
                   calculate_overall_score(ev.value.dimension_scores))

C18_TotalWeight(q) ==
    LET T[i \in 0..Len(q)] ==
            IF i = 0 THEN 0 ELSE T[i - 1] + q[Len(q) - i + 1].weight
    IN T[Len(q)]

C18_WeightedSum(q) ==
    LET S[i \in 0..Len(q)] ==
            IF i = 0 THEN Float(0)
            ELSE FloatAdd(S[i - 1], FloatMul(q[Len(q) - i + 1].score,
                                             Float(q[Len(q) - i + 1].weight)))
    IN S[Len(q)]

\* C18: the aggregate of a non-empty list with total weight W # 0 is
\* (sum of score x weight) / W, and it is 0.0 for the empty list and for W = 0.
C18_WeightedAverage ==
    (pc = "returned" /\ call.op = "aggregate")
        => IF call.dimension_scores = <<>> \/ C18_TotalWeight(call.dimension_scores) = 0
           THEN ev = Float(0)
           ELSE ev.num * C18_WeightedSum(call.dimension_scores).den
                       * C18_TotalWeight(call.dimension_scores)
                = C18_WeightedSum(call.dimension_scores).num * ev.den

C18_Witness ==
    /\ pc = "returned"
    /\ call.op = "aggregate"
    /\ Len(call.dimension_scores) = 2
    /\ C18_TotalWeight(call.dimension_scores) = 125
    /\ call.dimension_scores[1].score # call.dimension_scores[2].score
    /\ ev.num # 0

C19_OverlayIssues(d) ==
    IF ~d.exists THEN 1
    ELSE IF d.pngs = <<>> THEN 1
    ELSE Cardinality({i \in 1..Len(d.pngs) :
             ~d.pngs[i].readable \/ d.pngs[i].w # 1920 \/ d.pngs[i].h # 1080})

C19_ListingErrors(d) ==
    IF ~d.exists THEN 0
    ELSE Cardinality({i \in 1..Len(d.jpgs) : ~d.jpgs[i].readable})
         + Cardinality({i \in 1..Len(d.jpgs) :
               d.jpgs[i].readable /\ (d.jpgs[i].w < 2000 \/ d.jpgs[i].h < 2000)})
         + Cardinality({i \in 1..Len(d.jpgs) :
               i = 1 /\ d.jpgs[i].readable /\ d.jpgs[i].w < d.jpgs[i].h})
         + Cardinality({i \in 1..Len(d.jpgs) :
               d.jpgs[i].readable /\ d.jpgs[i].kb > LISTING_HARD_KB})

C19_ZipIssues(d) ==
    IF ~d.exists THEN 0
    ELSE (IF Len(d.zips) > 5 THEN 1 ELSE 0)
         + Cardinality({i \in 1..Len(d.zips) : d.zips[i].kb > 20 * 1024})

C19_IssueCount(p) ==
    C19_OverlayIssues(p.final) + C19_ListingErrors(p.listing) + C19_ZipIssues(p.zips)

C20_DryRunWritesNothing ==
    [][(args.dry_run /\ pc \in Running)
        => /\ state_file' = state_file
           /\ qa_reports' = qa_reports
           /\ final_pngs' = final_pngs
           /\ deliverables' = deliverables]_vars

\* C21: when the Automated Technical Checker finds a critical issue in the
\* pack of a round (missing final directory, no overlay image, wrong
\* resolution, oversized archive), then whatever text the evaluation model
\* returns, the round's PackEvaluation contains every such critical issue and
\* the post-check on that round stops the workflow with BLOCKED.
C21_CriticalSurvivesEvaluation ==
    (/\ pc \in {"returned", "decided"}
     /\ call.op = "evaluate"
     /\ call.api_key
     /\ ~call.dry_run
     /\ call.response.kind = "text"
     /\ check_critical_issues(call.pack_dir) # <<>>)
    => /\ ev.ok
       /\ \A i \in 1..Len(check_critical_issues(call.pack_dir)) :
            \E j \in 1..Len(ev.value.critical_issues) :
               ev.value.critical_issues[j] = check_critical_issues(call.pack_dir)[i]
       /\ pc = "decided" => (stop.should_stop /\ stop.decision = "BLOCKED")

\* C22: when the stopping check stops because current_round > max_rounds
\* (the latest evaluation has no critical issue and does not pass), the
\* check stops, and its decision label is PASS exactly when latest_score >=
\* quality_threshold and the CONTINUE label otherwise.
C22_CeilingLabel ==
    (/\ pc = "checked"
     /\ HasEvaluation(ws)
     /\ ~HasCritical(latest_evaluation(ws))
     /\ ~passes_threshold(latest_evaluation(ws))
     /\ current_round(ws) > ws.max_rounds)
    => /\ stop.should_stop
       /\ stop.decision \in {"PASS", "CONTINUE"}
       /\ stop.decision = "PASS" <=> latest_score(ws) >= ws.quality_threshold

\* C23: the stopping decision run_round computes and reports for round N (the
\* PM decision inside run_round, and the decision written in the QA report
\* of round N, where COMPLETE stands for PASS) is the decision the driver
\* takes in its post-check after appending round N.
C23_ReportedIsTaken ==
    (stop.at >= 1 /\ summary.round_num = stop.at)
    => /\ summary.decision = stop.decision
       /\ summary.qa = (IF stop.decision = "PASS" THEN "COMPLETE" ELSE stop.decision)

C24_IsCall(e) == e.event = "call"
C24_Calls == SelectSeq(ev.log, C24_IsCall)
C24_Chain ==
    /\ \A k \in 1..Len(C24_Calls) : C24_Calls[k].model = k
    /\ Len(C24_Calls) <= Len(call.chain)
    /\ \A k \in 1..Len(ev.log) :
         /\ (ev.log[k].event = "call" /\ ev.log[k].model > 1
             /\ QuotaDelay(call.chain[ev.log[k].model - 1]) > 0)
            => (k > 1 /\ ev.log[k - 1] =
                   [event |-> "sleep",
                    seconds |-> QuotaDelay(call.chain[ev.log[k].model - 1])])
         /\ ev.log[k].event = "sleep"
            => (k > 1 /\ ev.log[k - 1].event = "call"
                /\ ev.log[k].seconds = QuotaDelay(call.chain[ev.log[k - 1].model]))
    /\ (pc = "gdone" /\ ev.result.ok)
       => /\ C24_Calls # <<>>
          /\ ev.result.value.model = Len(C24_Calls)
          /\ Yields(call.chain[Len(C24_Calls)])
          /\ \A j \in 1..(Len(C24_Calls) - 1) : ~Yields(call.chain[j])
    /\ (pc = "gdone" /\ ~ev.result.ok)
       => /\ ev.result.raised = "RuntimeError"
          /\ Len(C24_Calls) = Len(call.chain)
          /\ \A j \in 1..Len(call.chain) : ~Yields(call.chain[j])
          /\ QuotaDelay(call.chain[Len(call.chain)]) > 0
             => ev.log[Len(ev.log)].event = "sleep"

C25_ProducedArchiveChecked ==
    /\ (pc = "reevaluated" /\ \E z \in pack.delivery.zips : z.kb > ZIP_LIMIT_KB)
       => /\ \E i \in 1..Len(compute_automated_score(PackDirOf(pack)).issues) :
                HasExceeds20MB(compute_automated_score(PackDirOf(pack)).issues[i])
          /\ \E i \in 1..Len(check_critical_issues(PackDirOf(pack))) :
                check_critical_issues(PackDirOf(pack))[i] = "CRITICAL: {name}: Size {s}MB exceeds Etsy's 20MB limit"
          /\ ev.ok => \E i \in 1..Len(ev.value.critical_issues) :
                         ev.value.critical_issues[i] = "CRITICAL: {name}: Size {s}MB exceeds Etsy's 20MB limit"
    /\ (call.op = "run_round" /\ ~pack.delivery.exists)
       => validate_etsy_downloads(PackDirOf(pack).zips).issues = <<>>

\* C26: if every prompt of config.yaml is non-empty and within the length
\* bounds (10 to 2000 characters) before a round, this still holds during and
\* after the round, whatever the prompt refinement returns.
C26_PromptsStayValid ==
    (call.op = "run_round" /\ validate_prompts(pack.before.prompts) = <<>>)
    => validate_prompts(pack.config.prompts) = <<>>

\* C27: after generation, selection and post-processing of round N the final
\* image directory holds determine_variant_count(N) images per screen type,
\* all of them generated in round N.
C27_FinalHoldsThisRound ==
    (pc = "evaluate" /\ ~call.dry_run)
    => /\ \A i \in 1..Len(ConfigKinds(pack.config)) :
            Cardinality({f \in pack.final.files : f.kind = ConfigKinds(pack.config)[i]})
               = determine_variant_count(current_round(ws), ws.max_rounds)
       /\ \A f \in pack.final.files : f.round = current_round(ws)

\* C29: a round that aborts with a collaborator error leaves config.yaml as
\* it found it (prompts and brand tokens), so that the re-run of the round
\* applies the deltas of the round before once: after the config work of the
\* re-run the prompts are the prompts the round first started from, refined
\* once.
C29_FailedRoundKeepsConfig ==
    /\ pc = "aborted" => pack.config = pack.before
    /\ (/\ pc \in {"build", "select", "post", "evaluate"}
        /\ pack.retry
        /\ ~call.dry_run
        /\ ~call.llm.available
        /\ current_round(ws) > 1)
       => pack.config.prompts =
              refine_prompts_rule_based(pack.round_base.prompts, latest_deltas(ws))

\* C28: a driver invocation that loaded a completed persisted state leaves
\* the persisted state as it was: once the invocation has saved, the file
\* holds the state that was loaded, completion_reason and its decision label
\* included.
C28_CompletedReinvokeIdempotent ==
    (resumed /\ loaded.completed /\ pc \in {"phase4", "phase5", "done"})
    => /\ state_file.exists
       /\ load(state_file.data) = loaded
       /\ load(state_file.data).completion_reason = loaded.completion_reason

\* the workflow state s under the persisted control parameters
C30_Governed(s) ==
    [s EXCEPT !.max_rounds = call.persisted.max_rounds,
              !.quality_threshold = call.persisted.quality_threshold]

\* C30: on resume the persisted control parameters govern.  The state a
\* resuming invocation starts from is the persisted one whatever max_rounds
\* and quality_threshold it is given; throughout the run the workflow state
\* carries the persisted max_rounds and quality_threshold, no round beyond
\* the persisted max_rounds is run, and the stopping decision after a round
\* is the one check_stopping_conditions gives for the persisted parameters.
C30_PersistedParametersGovern ==
    (call.op = "resume" /\ ws # None)
    => /\ resumed
       /\ (pc = "loop" /\ ran = <<>>) => ws = load(state_file.data)
       /\ ws.max_rounds = call.persisted.max_rounds
       /\ ws.quality_threshold = call.persisted.quality_threshold
       /\ load(state_file.data).max_rounds = call.persisted.max_rounds
       /\ load(state_file.data).quality_threshold = call.persisted.quality_threshold
       /\ \A i \in 1..Len(ran) : ran[i] <= call.persisted.max_rounds
       /\ pc = "loop" => should_continue(ws) = should_continue(C30_Governed(ws))
       /\ (stop # NoStop /\ stop.at = Len(ws.rounds))
          => stop.decision = check_stopping_conditions(C30_Governed(ws)).decision

\* a resumed run with arguments different from the persisted parameters has
\* run a round beyond the max_rounds argument and has taken its decision
C30_Witness ==
    /\ call.op = "resume"
    /\ pc = "done"
    /\ call.max_rounds # call.persisted.max_rounds
    /\ call.quality_threshold # call.persisted.quality_threshold
    /\ \E i \in 1..Len(ran) : ran[i] > call.max_rounds
    /\ stop # NoStop

====
